---- MODULE Spec2Model ----
(***************************************************************************)
(* ReconAI server (src/recon_server.py): the command cache, the tool       *)
(* adapters, the comprehensive-scan background job and the job registry.   *)
(*                                                                         *)
(* Python dictionaries are heap objects: a dictionary that is reachable    *)
(* from two places (the cache and a job's results) is one object.  The     *)
(* model keeps such dictionaries in heaps (scan_info, objs, results) and   *)
(* stores references to them.  One step of a thread is one Python          *)
(* statement that reads or writes shared state.                            *)
(***************************************************************************)
EXTENDS Integers, Sequences, FiniteSets, TLC

\* ------------------------------------------------------------------ bounds
MaxJobs    == 2    \* comprehensive-scan start requests accepted
MaxTime    == 2    \* last clock reading (the clock starts at 1)
MaxTTL     == 1    \* largest configured cache TTL
MaxCalls   == 1    \* ad-hoc /api/tools/nmap requests
MaxClears  == 1    \* cache-clear requests
MaxOps     == 3    \* operations on the cache when it is used alone
MaxDelay   == 1    \* clock ticks a spawn, a run or a kill takes in a timed call
RunTimeout == 2    \* the timeout argument of the timed calls, in clock ticks

\* ------------------------------------------------------------- sentinels
NoTime  == 0 - 1          \* a dictionary without the key 'end_time'
NoRef   == 0              \* no scan_info dictionary
NoObj   == <<>>           \* Python None where a result dictionary may stand
NoEntry == [result |-> NoObj, timestamp |-> NoTime]

Jobs    == 1 .. MaxJobs
AdHoc   == 0                       \* the caller id of the ad-hoc request thread
Callers == Jobs \cup {AdHoc}

\* ------------------------------------------------------------ string helpers
\* str.startswith
StartsWith(s, p) == Len(s) >= Len(p) /\ SubSeq(s, 1, Len(p)) = p

RECURSIVE Join(_)
\* ' '.join(command)
Join(command) ==
    IF Len(command) = 0 THEN ""
    ELSE IF Len(command) = 1 THEN command[1]
    ELSE command[1] \o " " \o Join(Tail(command))

RECURSIVE SplitFrom(_, _, _)
\* str.split(): the maximal runs of non-blank characters of s, from position i,
\* with cur the run being read
SplitFrom(s, i, cur) ==
    IF i > Len(s) THEN (IF cur = "" THEN <<>> ELSE <<cur>>)
    ELSE IF SubSeq(s, i, i) = " "
         THEN (IF cur = "" THEN <<>> ELSE <<cur>>) \o SplitFrom(s, i + 1, "")
         ELSE SplitFrom(s, i + 1, cur \o SubSeq(s, i, i))

Split(s) == SplitFrom(s, 1, "")

\* ------------------------------------------------------- CommandExecutor
\* What the spawned process does: it exits with a code, outlives the timeout,
\* cannot be found, or Popen fails in another way.  Until then it has written
\* stdout, and "stderr" to its standard error.
Proc(kind, code, stdout) ==
    [kind |-> kind, code |-> code, stdout |-> stdout,
     stderr |-> IF kind \in {"exit", "timeout"} THEN "stderr" ELSE ""]

\* subprocess.Popen(command): with an empty list no process is started, Popen
\* raises (IndexError on POSIX)
Popen(command, proc) ==
    IF Len(command) = 0 /\ proc.kind \in {"exit", "timeout"}
    THEN Proc("oserror", 0, <<>>)
    ELSE proc

NoParsed == [absent |-> TRUE]

\* an execute whose last except clause is missing
HandlerNarrow(kind) ==
    IF kind = "timeout" THEN "TimeoutExpired"
    ELSE IF kind = "not_found" THEN "FileNotFoundError"
    ELSE "none"
\* the except clause of execute that takes what Popen or communicate raises
Handler(kind) ==
    IF kind = "timeout" THEN "TimeoutExpired"
    ELSE IF kind = "not_found" THEN "FileNotFoundError"
    ELSE "Exception"

\* an exception that leaves the function
Raised == [raised |-> TRUE]

\* CommandExecutor.execute: the dictionary built at each of its four returns.
\* The key 'parsed' is added by the adapters, the key 'cached' on a cache hit.
Execute(command, proc) ==
    LET p == Popen(command, proc) IN
    IF p.kind = "exit" THEN
        [success |-> p.code = 0, stdout |-> p.stdout, stderr |-> p.stderr,
         exit_code |-> p.code, command |-> Join(command),
         timeout |-> FALSE, not_found |-> FALSE, error |-> FALSE,
         parsed |-> NoParsed, cached |-> FALSE]
    ELSE IF Handler(p.kind) = "TimeoutExpired" THEN
        [success |-> FALSE, stdout |-> p.stdout, stderr |-> "Command timed out",
         exit_code |-> 0 - 1, command |-> Join(command),
         timeout |-> TRUE, not_found |-> FALSE, error |-> FALSE,
         parsed |-> NoParsed, cached |-> FALSE]
    ELSE IF Handler(p.kind) = "FileNotFoundError" THEN
        [success |-> FALSE, stdout |-> <<>>, stderr |-> "Command not found",
         exit_code |-> 0 - 1, command |-> Join(command),
         timeout |-> FALSE, not_found |-> TRUE, error |-> FALSE,
         parsed |-> NoParsed, cached |-> FALSE]
    ELSE IF Handler(p.kind) = "Exception" THEN
        [success |-> FALSE, stdout |-> <<>>, stderr |-> "str(e)",
         exit_code |-> 0 - 1, command |-> Join(command),
         timeout |-> FALSE, not_found |-> FALSE, error |-> TRUE,
         parsed |-> NoParsed, cached |-> FALSE]
    ELSE Raised

\* The 'execution_time' execute puts into the dictionary: measured on the
\* clock at the normal return and in the last handler, the timeout argument in
\* the timeout handler, 0 when the program is not found.
ExecutionTime(kind, start, end, timeout) ==
    IF kind = "exit" THEN end - start
    ELSE IF kind = "timeout" THEN timeout
    ELSE IF kind = "not_found" THEN 0
    ELSE end - start

\* ---------------------------------------------------------- CacheManager
\* a key that keeps the tokens apart
get_key_tokens(command) == command
\* CacheManager.get_key.  An MD5 digest stands for the string it digests: the
\* key is the space-joined command.
get_key(command) == Join(command)

\* key in self.cache
InCache(c, key) == key \in DOMAIN c

\* age = time.time() - cached_data['timestamp']
Age(t, cached_data) == t - cached_data.timestamp

\* a comparison that still takes an entry of age ttl
FreshLoose(age, limit) == age <= limit
\* if age < self.ttl
Fresh(age, limit) == age < limit

\* del self.cache[key]
Evict(c, key) == [k \in DOMAIN c \ {key} |-> c[k]]

\* a store that leaves an entry that is there (setdefault)
PutIfAbsent(c, key, result, t) ==
    IF key \in DOMAIN c THEN c
    ELSE (key :> [result |-> result, timestamp |-> t]) @@ c
\* a store that leaves the timestamp of an entry it replaces
PutKeepStamp(c, key, result, t) ==
    (key :> [result |-> result,
             timestamp |-> IF key \in DOMAIN c THEN c[key].timestamp ELSE t]) @@ c
\* CacheManager.set: self.cache[key] = {'result': result, 'timestamp': time.time()}
Put(c, key, result, t) == (key :> [result |-> result, timestamp |-> t]) @@ c

\* a lookup that also removes every other entry that has expired
CacheGetPurging(c, command, t, limit) ==
    LET key == get_key(command)
        live == { k \in DOMAIN c : Fresh(Age(t, c[k]), limit) }
    IN [ret |-> IF key \in live THEN c[key].result ELSE NoObj,
        cache |-> [k \in live |-> c[k]]]
\* CacheManager.get run without interruption: what it returns and the cache it
\* leaves.
CacheGet(c, command, t, limit) ==
    LET key == get_key(command) IN
    IF InCache(c, key)
    THEN IF Fresh(Age(t, c[key]), limit)
         THEN [ret |-> c[key].result, cache |-> c]
         ELSE [ret |-> NoObj, cache |-> Evict(c, key)]
    ELSE [ret |-> NoObj, cache |-> c]

\* CacheManager.set
CacheSet(c, command, result, t) == Put(c, get_key(command), result, t)

\* a clear that leaves the entries in place
ClearNothing(c) == c
\* CacheManager.clear: self.cache.clear()
Clear(c) == [k \in {} |-> k]

\* cache_clear_endpoint: what it answers
ClearResponse == [success |-> TRUE, message |-> "Cache cleared"]

\* CacheManager.stats
CacheStats(c, limit) == [size |-> Cardinality(DOMAIN c), ttl |-> limit]

\* ------------------------------------------------------------ ReconTools
\* CONFIG['tools'][...]: the configured program paths and default arguments.
NmapPath      == "nmap"
NmapDefault   == <<"-sV">>
GobusterPath  == "gobuster"
GobusterWords == "common.txt"
SubfinderPath == "subfinder"
HttpxPath     == "httpx"
\* subdomains[:50]
HttpxLimit    == 50

\* a command that gets the port option after the target
NmapCommandPortsLast(target, scan_type, ports, additional_args) ==
    <<NmapPath>>
    \o (IF scan_type = "quick" THEN <<"-T4", "-F">>
        ELSE IF scan_type = "full" THEN <<"-T4", "-p-">>
        ELSE IF scan_type = "service" THEN <<"-sV", "-sC", "-T4">>
        ELSE IF scan_type = "vuln" THEN <<"--script=vuln", "-T4">>
        ELSE NmapDefault)
    \o (IF additional_args /= "" THEN Split(additional_args) ELSE <<>>)
    \o <<target>>
    \o (IF ports /= "" THEN <<"-p", ports>> ELSE <<>>)
\* ReconTools.nmap_scan, the command it builds
NmapCommand(target, scan_type, ports, additional_args) ==
    <<NmapPath>>
    \o (IF scan_type = "quick" THEN <<"-T4", "-F">>
        ELSE IF scan_type = "full" THEN <<"-T4", "-p-">>
        ELSE IF scan_type = "service" THEN <<"-sV", "-sC", "-T4">>
        ELSE IF scan_type = "vuln" THEN <<"--script=vuln", "-T4">>
        ELSE NmapDefault)
    \o (IF ports /= "" THEN <<"-p", ports>> ELSE <<>>)
    \o (IF additional_args /= "" THEN Split(additional_args) ELSE <<>>)
    \o <<target>>

\* ReconTools.gobuster_scan, the command it builds
GobusterCommand(target, wordlist, mode, extensions, additional_args) ==
    <<GobusterPath, mode, "-u", target, "-w",
      IF wordlist = "" THEN GobusterWords ELSE wordlist, "-q">>
    \o (IF mode = "dir" /\ extensions /= "" THEN <<"-x", extensions>> ELSE <<>>)
    \o (IF additional_args /= "" THEN Split(additional_args) ELSE <<>>)

\* ReconTools.subfinder_scan, the command it builds
SubfinderCommand(domain, additional_args) ==
    <<SubfinderPath, "-d", domain, "-silent">>
    \o (IF additional_args /= "" THEN Split(additional_args) ELSE <<>>)

\* ReconTools.httpx_probe, the command it builds
HttpxCommand(additional_args) ==
    <<HttpxPath, "-silent", "-json", "-title", "-tech-detect", "-status-code">>
    \o (IF additional_args /= "" THEN Split(additional_args) ELSE <<>>)

RECURSIVE Strip(_)
\* str.strip(): s without its leading and trailing blanks
Strip(s) ==
    IF s = "" THEN ""
    ELSE IF SubSeq(s, 1, 1) = " " THEN Strip(SubSeq(s, 2, Len(s)))
    ELSE IF SubSeq(s, Len(s), Len(s)) = " " THEN Strip(SubSeq(s, 1, Len(s) - 1))
    ELSE s

RECURSIVE Replace(_, _, _)
\* str.replace(old, new): s with every occurrence of old, from the left,
\* replaced by new
Replace(s, old, new) ==
    IF s = "" THEN ""
    ELSE IF StartsWith(s, old) THEN new \o Replace(SubSeq(s, Len(old) + 1, Len(s)), old, new)
    ELSE SubSeq(s, 1, 1) \o Replace(SubSeq(s, 2, Len(s)), old, new)

\* a list of the lines that keeps the first of equal ones only
NonBlankDistinct(lines) ==
    LET all  == SelectSeq([i \in 1 .. Len(lines) |-> Strip(lines[i])], LAMBDA l : l /= "")
        keep == {i \in 1 .. Len(all) : \A j \in 1 .. (i - 1) : all[j] /= all[i]}
    IN  [k \in 1 .. Cardinality(keep) |->
            all[CHOOSE i \in keep : Cardinality({j \in keep : j <= i}) = k]]
\* [line.strip() for line in stdout.split('\n') if line.strip()]
NonBlank(lines) ==
    SelectSeq([i \in 1 .. Len(lines) |-> Strip(lines[i])], LAMBDA l : l /= "")

\* no status token on the line
None == <<>>

\* the loop body of _parse_gobuster_output: parsed after one more line
ParseGobusterLine(parsed, line) ==
    IF StartsWith(line, "/") \/ StartsWith(line, "http")
    THEN LET parts == Split(line) IN
         IF Len(parts) >= 2
         THEN LET path   == parts[1]
                  status == IF StartsWith(parts[2], "(Status:") THEN <<parts[2]>> ELSE None
                  status_code == Replace(Replace(status[1], "(Status:", ""), ")", "")
                  codes  == parsed.status_codes
              IN  [found_paths |->
                       Append(parsed.found_paths,
                              [path |-> path, status |-> status, line |-> Strip(line)]),
                   status_codes |->
                       IF status = None THEN codes
                       ELSE IF status_code \in DOMAIN codes
                            THEN [codes EXCEPT ![status_code] = @ + 1]
                            ELSE (status_code :> 1) @@ codes]
         ELSE parsed
    ELSE parsed

RECURSIVE ParseGobusterFrom(_, _, _)
\* for line in lines, from line i on
ParseGobusterFrom(lines, i, parsed) ==
    IF i > Len(lines) THEN parsed
    ELSE ParseGobusterFrom(lines, i + 1, ParseGobusterLine(parsed, lines[i]))

\* ReconTools._parse_gobuster_output, with output.split('\n') as `lines`
ParseGobusterOutput(lines) ==
    ParseGobusterFrom(lines, 1, [found_paths |-> <<>>, status_codes |-> [c \in {} |-> 0]])

\* The 'parsed' value each adapter adds to a successful result.  The port and
\* path parsers are functions of stdout alone and are kept as that.
Parsed(tool, stdout) ==
    IF tool = "subfinder"
    THEN [tool |-> tool, lines |-> NonBlank(stdout), count |-> Len(NonBlank(stdout))]
    ELSE [tool |-> tool, lines |-> stdout, count |-> Len(stdout)]

\* if result['success']: result['parsed'] = ...
WithParsed(tool, result) ==
    IF result.success
    THEN [result EXCEPT !.parsed = Parsed(tool, result.stdout)]
    ELSE result

\* ------------------------------------------------------------------ inputs
Targets == {"d.io", "http://u.io"}

\* values of the request's scan_types
ScanTypeChoices == { {}, {"nmap"}, {"nmap", "dns", "gobuster", "subfinder"} }

\* for the branching of the pipeline: also a host name that begins with
\* 'http', and a request that names httpx
ScanTargets == Targets \cup {"httpd.io"}
BranchChoices == ScanTypeChoices \cup { {"gobuster", "subfinder", "httpx"} }
NoTools == { {} }

\* bodies of /api/tools/nmap requests
NmapRequests ==
    { [target |-> "d.io", scan_type |-> "service", ports |-> "", additional_args |-> ""],
      [target |-> "d.io", scan_type |-> "quick", ports |-> "", additional_args |-> ""] }

\* what the external program does when the cache is exercised alone
HarnessProcs == { Proc("exit", 0, <<"out">>), Proc("exit", 1, <<>>) }

\* more subdomains than the pipeline hands to httpx, a blank line among them
ManySubdomains ==
    [i \in 1 .. (HttpxLimit + 2) |-> IF i = 2 THEN "" ELSE "s" \o ToString(i) \o ".d.io"]

\* what the external program does when an adapter runs it
Procs(tool) ==
    IF tool = "subfinder"
    THEN { Proc("exit", 0, <<"a.d.io">>), Proc("exit", 0, <<>>), Proc("timeout", 0, <<>>),
           Proc("exit", 0, ManySubdomains) }
    ELSE { Proc("exit", 0, <<"out">>), Proc("timeout", 0, <<>>) }

\* hashlib.md5(f"{target}{time.time()}".encode()).hexdigest()[:8]; the digest
\* prefix stands for the string it digests
ScanId(target, t) == target \o ToString(t)

UnknownId == "ffffffff"

\* ------------------------------------------------------------------- state
VARIABLES
    now,           \* time.time()
    ttl,           \* cache_manager.ttl
    ACTIVE_SCANS,  \* scan id -> reference to a scan_info dictionary
    scan_info,     \* the scan_info dictionaries, one per start request
    SCAN_RESULTS,  \* scan id -> reference to a results dictionary
    results,       \* the results dictionary of each background thread
    cache,         \* cache_manager.cache: key -> {result, timestamp}
    objs,          \* the result dictionaries built by adapters
    handler,       \* where each start request's handler stands
    start_resp,    \* the last response of the start endpoint
    pc,            \* where each background thread / the ad-hoc request stands
    closure,       \* target, scan_id, scan_types, start_time of each thread
    frame,         \* the adapter call each caller is in
    reader,        \* the status / results request in flight and its response
    calls,         \* ad-hoc adapter requests made
    clears,        \* cache-clear requests made
    observed,      \* history: the ids some status response reported 'completed' for
    stored,        \* history: the aggregate first stored for each id
    ops,           \* functions called directly: calls made
    log            \* history: the direct calls and what they returned, and the
                   \* targets each pipeline handed to httpx_probe

vars == <<now, ttl, ACTIVE_SCANS, scan_info, SCAN_RESULTS, results, cache, objs,
          handler, start_resp, pc, closure, frame, reader, calls, clears,
          observed, stored, ops, log>>

registry == <<ACTIVE_SCANS, scan_info, SCAN_RESULTS, results>>
budgets  == <<calls, clears>>
harness  == <<ops, log>>
history  == <<observed, stored>>

Empty == [x \in {} |-> x]

NoInfo    == [target |-> "", status |-> "none", start_time |-> NoTime,
              end_time |-> NoTime, scan_types |-> {}]
NoResults == [target |-> "", scan_id |-> "", start_time |-> NoTime,
              nmap |-> NoObj, dns |-> NoObj, gobuster |-> NoObj,
              subfinder |-> NoObj, httpx |-> NoObj,
              total_duration |-> NoTime, end_time |-> NoTime]
NoClosure == [target |-> "", scan_id |-> "", scan_types |-> {}, start_time |-> NoTime]
NoFrame   == [tool |-> "", command |-> <<>>, cached_data |-> NoEntry, ret |-> NoObj]
NoResp    == [code |-> 0]

Init ==
    /\ now = 1
    /\ ttl \in 1 .. MaxTTL
    /\ ACTIVE_SCANS = Empty
    /\ scan_info = [n \in Jobs |-> NoInfo]
    /\ SCAN_RESULTS = Empty
    /\ results = [n \in Jobs |-> NoResults]
    /\ cache = Empty
    /\ objs = Empty
    /\ handler = [n \in Jobs |-> "none"]
    /\ start_resp = NoResp
    /\ pc = [c \in Callers |-> "idle"]
    /\ closure = [n \in Jobs |-> NoClosure]
    /\ frame = [c \in Callers |-> NoFrame]
    /\ reader = [pc |-> "idle", op |-> "none", id |-> "", ref |-> NoRef, resp |-> NoResp]
    /\ calls = 0
    /\ clears = 0
    /\ observed = {}
    /\ stored = Empty
    /\ ops = 0
    /\ log = <<>>

\* --------------------------------------------------------------- the clock
Tick ==
    /\ now < MaxTime
    /\ now' = now + 1
    /\ UNCHANGED <<ttl, registry, cache, objs, handler, start_resp, pc, closure,
                   frame, reader, budgets, history, harness>>

\* ---------------------------------------------- comprehensive_scan_endpoint
\* a handler that leaves the registry as it is
RegisterJobLate(reg, id, n) == reg
\* a registration that replaces the registry by one holding the new job alone
RegisterJobAlone(reg, id, n) == (id :> n)
\* ACTIVE_SCANS[scan_id] = {...}
RegisterJob(reg, id, n) == (id :> n) @@ reg

\* a handler that registers the request before it looks at the target
StartRejectRegistered ==
    /\ start_resp' = [code |-> 400, success |-> FALSE, scan_id |-> ""]
    /\ ACTIVE_SCANS' = RegisterJob(ACTIVE_SCANS, ScanId("", now), 1)
    /\ UNCHANGED <<now, ttl, scan_info, SCAN_RESULTS, results, cache, objs, handler,
                   pc, closure, frame, reader, budgets, history, harness>>
\* if not target: return jsonify({'success': False, ...}), 400
StartReject ==
    /\ start_resp' = [code |-> 400, success |-> FALSE, scan_id |-> ""]
    /\ UNCHANGED <<now, ttl, registry, cache, objs, handler, pc, closure, frame,
                   reader, budgets, history, harness>>

\* scan_id = hashlib.md5(f"{target}{time.time()}"...)
StartHash(n, target, scan_types) ==
    /\ handler[n] = "none"
    /\ \A m \in Jobs : m < n => handler[m] /= "none"
    /\ target /= ""
    /\ closure' = [closure EXCEPT ![n] =
           [target |-> target, scan_id |-> ScanId(target, now),
            scan_types |-> scan_types, start_time |-> NoTime]]
    /\ handler' = [handler EXCEPT ![n] = "hashed"]
    /\ UNCHANGED <<now, ttl, registry, cache, objs, start_resp, pc, frame, reader,
                   budgets, history, harness>>

\* ACTIVE_SCANS[scan_id] = {'target', 'status': 'running', 'start_time', 'scan_types'}
StartRegister(n) ==
    /\ handler[n] = "hashed"
    /\ ACTIVE_SCANS' = RegisterJob(ACTIVE_SCANS, closure[n].scan_id, n)
    /\ scan_info' = [scan_info EXCEPT ![n] =
           [target |-> closure[n].target, status |-> "running", start_time |-> now,
            end_time |-> NoTime, scan_types |-> closure[n].scan_types]]
    /\ handler' = [handler EXCEPT ![n] = "registered"]
    /\ UNCHANGED <<now, ttl, SCAN_RESULTS, results, cache, objs, start_resp, pc,
                   closure, frame, reader, budgets, history, harness>>

\* thread = threading.Thread(target=run_comprehensive_scan, daemon=True); thread.start()
StartThread(n) ==
    /\ handler[n] = "registered"
    /\ handler' = [handler EXCEPT ![n] = "spawned"]
    /\ pc' = [pc EXCEPT ![n] = "begin"]
    /\ UNCHANGED <<now, ttl, registry, cache, objs, start_resp, closure, frame,
                   reader, budgets, history, harness>>

\* return jsonify({'success': True, 'scan_id': scan_id, ...})
StartReturn(n) ==
    /\ handler[n] = "spawned"
    /\ handler' = [handler EXCEPT ![n] = "returned"]
    /\ start_resp' = [code |-> 200, success |-> TRUE, scan_id |-> closure[n].scan_id]
    /\ UNCHANGED <<now, ttl, registry, cache, objs, pc, closure, frame, reader,
                   budgets, history, harness>>

\* ------------------------------------------------------ dns_info, httpx_probe
\* a list of record types that has lost its last entry
RecordTypesShort == <<"A", "AAAA", "MX", "NS", "TXT">>
\* record_types = ['A', 'AAAA', 'MX', 'NS', 'TXT', 'CNAME']
RecordTypes == <<"A", "AAAA", "MX", "NS", "TXT", "CNAME">>

\* cmd = ['nslookup', '-type=' + record_type, domain], one for each pass of the loop
DnsLookups(domain) ==
    [i \in 1 .. Len(RecordTypes) |-> <<"nslookup", "-type=" \o RecordTypes[i], domain>>]

AllExit(code) == [i \in 1 .. Len(RecordTypes) |-> Proc("exit", code, <<"out">>)]

\* what nslookup does for each of the six record types
DnsProcs ==
    { AllExit(0), AllExit(1), [AllExit(0) EXCEPT ![3] = Proc("timeout", 0, <<>>)] }

\* ReconTools.dns_info: one execute per record type; a successful one is
\* recorded under its type
DnsInfo(domain, procs) ==
    LET res(i) == Execute(DnsLookups(domain)[i], procs[i])
        ok == { i \in 1 .. Len(RecordTypes) : res(i).success }
    IN [success |-> TRUE, domain |-> domain,
        records |-> [rt \in { RecordTypes[i] : i \in ok } |->
                        res(CHOOSE i \in ok : RecordTypes[i] = rt).stdout]]

\* what httpx does: its output lines are a JSON object ("obj"), JSON that is no
\* object ("nonobj") or no JSON ("junk")
HttpxProcs ==
    { Proc("exit", 0, <<"obj">>), Proc("exit", 0, <<"nonobj">>), Proc("timeout", 0, <<>>) }

\* ReconTools._parse_httpx_output raises on a line that is JSON but no object
\* (data.get); a line that is no JSON is skipped
HttpxParseRaises(stdout) == \E i \in 1 .. Len(stdout) : stdout[i] = "nonobj"

\* ReconTools.httpx_probe: Popen, communicate and the parser under one
\* try/except Exception
HttpxProbe(targets, additional_args, proc) ==
    LET command_str == Join(HttpxCommand(additional_args))
        failed == [success |-> FALSE, stdout |-> <<>>, stderr |-> "str(e)",
                   exit_code |-> 0 - 1, command |-> command_str,
                   timeout |-> FALSE, not_found |-> FALSE, error |-> FALSE,
                   parsed |-> NoParsed, cached |-> FALSE]
    IN IF proc.kind /= "exit" THEN failed
       ELSE IF proc.code /= 0
            THEN [success |-> FALSE, stdout |-> proc.stdout, stderr |-> "stderr",
                  exit_code |-> proc.code, command |-> command_str,
                  timeout |-> FALSE, not_found |-> FALSE, error |-> FALSE,
                  parsed |-> NoParsed, cached |-> FALSE]
       ELSE IF HttpxParseRaises(proc.stdout) THEN failed
       ELSE [success |-> TRUE, stdout |-> proc.stdout, stderr |-> "stderr",
             exit_code |-> 0, command |-> command_str,
             timeout |-> FALSE, not_found |-> FALSE, error |-> FALSE,
             parsed |-> [tool |-> "httpx",
                         lines |-> SelectSeq(proc.stdout, LAMBDA l : l = "obj"),
                         count |-> Len(SelectSeq(proc.stdout, LAMBDA l : l = "obj"))],
             cached |-> FALSE]

\* a slice that keeps the whole list
WholeList(seq, k) == seq
\* seq[:k]
FirstN(seq, k) == SubSeq(seq, 1, IF Len(seq) < k THEN Len(seq) ELSE k)

\* ------------------------------------- run_comprehensive_scan: the branching
\* a test of the scheme that looks at its first four characters only
IsUrlLoose(target) == StartsWith(target, "http")
\* target.startswith('http://') or target.startswith('https://')
IsUrl(target) == StartsWith(target, "http://") \/ StartsWith(target, "https://")

Stages == <<"nmap", "dns", "gobuster", "subfinder", "total">>
StageNo(stage) == CHOOSE i \in 1 .. Len(Stages) : Stages[i] = stage

Call(tool, command) ==
    [pc |-> "get_in",
     frame |-> [tool |-> tool, command |-> command, cached_data |-> NoEntry, ret |-> NoObj]]

\* Where thread n stands, and the adapter call it is in, once everything before
\* `stage` is done: the `if` tests of the pipeline read only the thread's own
\* target and scan_types, so they are taken together with the statement before them.
ResumeAt(n, stage) ==
    LET target == closure[n].target
        scan_types == closure[n].scan_types
        from == StageNo(stage)
    IN IF from <= 1 /\ "nmap" \in scan_types
       THEN Call("nmap", NmapCommand(target, "service", "", ""))
       ELSE IF from <= 2 /\ "dns" \in scan_types
       THEN [pc |-> "dns", frame |-> NoFrame]
       ELSE IF from <= 3 /\ "gobuster" \in scan_types /\ IsUrl(target)
       THEN Call("gobuster", GobusterCommand(target, "", "dir", "php,html,txt", ""))
       ELSE IF from <= 4 /\ "subfinder" \in scan_types /\ ~StartsWith(target, "http")
       THEN Call("subfinder", SubfinderCommand(target, ""))
       ELSE [pc |-> "total", frame |-> NoFrame]

\* if subfinder_result.get('success') and subfinder_result.get('parsed'):
\*     subdomains = subfinder_result['parsed'].get('subdomains', []); if subdomains:
Probes(sub) == sub.success /\ sub.parsed /= NoParsed /\ Len(sub.parsed.lines) > 0

\* a pipeline that gives up the remaining tools when an adapter has failed
AfterToolStopOnFailure(n, tool, o) ==
    IF ~objs[o].success THEN [pc |-> "total", frame |-> NoFrame]
    ELSE IF tool = "nmap" THEN ResumeAt(n, "dns")
    ELSE IF tool = "gobuster" THEN ResumeAt(n, "subfinder")
    ELSE IF Probes(objs[o]) THEN [pc |-> "httpx", frame |-> NoFrame]
    ELSE [pc |-> "total", frame |-> NoFrame]
\* a pipeline that goes back to the DNS step after every adapter
AfterToolBackToDns(n, tool, o) == ResumeAt(n, "dns")
\* Where thread n goes on when the adapter for `tool` has returned the
\* dictionary o.
AfterTool(n, tool, o) ==
    IF tool = "nmap" THEN ResumeAt(n, "dns")
    ELSE IF tool = "gobuster" THEN ResumeAt(n, "subfinder")
    ELSE IF Probes(objs[o]) THEN [pc |-> "httpx", frame |-> NoFrame]
    ELSE [pc |-> "total", frame |-> NoFrame]

\* ------------------------------------------- an adapter call, step by step
\* (nmap_scan, gobuster_scan and subfinder_scan share these steps)

\* The result dictionary a call of caller c builds.
ObjId(c, tool) == <<c, IF c = AdHoc THEN tool \o ToString(calls) ELSE tool>>

\* The adapter returns o to its caller: the pipeline stores it under the tool's
\* name and goes on; the ad-hoc endpoint answers with it.
Return(c, o) ==
    IF c \in Jobs
    THEN /\ results' = [results EXCEPT ![c][frame[c].tool] = o]
         /\ pc' = [pc EXCEPT ![c] = AfterTool(c, frame[c].tool, o).pc]
         /\ frame' = [frame EXCEPT ![c] = AfterTool(c, frame[c].tool, o).frame]
    ELSE /\ results' = results
         /\ pc' = [pc EXCEPT ![c] = "returned"]
         /\ frame' = [frame EXCEPT ![c].ret = o]

\* a pipeline that catches what an adapter raises and goes on to its final writes
RaiseCaught(c) ==
    /\ pc' = [pc EXCEPT ![c] = IF c \in Jobs THEN "total" ELSE "failed"]
    /\ frame' = [frame EXCEPT ![c].ret = NoObj]
\* An exception leaves the adapter: nothing catches it in the background thread,
\* which dies; the ad-hoc endpoint answers 500.
Raise(c) ==
    /\ pc' = [pc EXCEPT ![c] = IF c \in Jobs THEN "crashed" ELSE "failed"]
    /\ frame' = [frame EXCEPT ![c].ret = NoObj]

\* CacheManager.get: if key in self.cache
GetIn(c) ==
    /\ pc[c] = "get_in"
    /\ pc' = [pc EXCEPT ![c] =
           IF InCache(cache, get_key(frame[c].command)) THEN "get_read" ELSE "exec"]
    /\ UNCHANGED <<now, ttl, registry, cache, objs, handler, start_resp, closure,
                   frame, reader, budgets, history, harness>>

\* CacheManager.get: cached_data = self.cache[key]
GetRead(c) ==
    /\ pc[c] = "get_read"
    /\ IF InCache(cache, get_key(frame[c].command))
       THEN /\ frame' = [frame EXCEPT ![c].cached_data = cache[get_key(frame[c].command)]]
            /\ pc' = [pc EXCEPT ![c] = "get_age"]
       ELSE Raise(c)
    /\ UNCHANGED <<now, ttl, registry, cache, objs, handler, start_resp, closure,
                   reader, budgets, history, harness>>

\* CacheManager.get: age = time.time() - ...; if age < self.ttl
GetAge(c) ==
    /\ pc[c] = "get_age"
    /\ pc' = [pc EXCEPT ![c] =
           IF Fresh(Age(now, frame[c].cached_data), ttl) THEN "hit" ELSE "get_del"]
    /\ UNCHANGED <<now, ttl, registry, cache, objs, handler, start_resp, closure,
                   frame, reader, budgets, history, harness>>

\* cached['cached'] = True, on the dictionary the cache holds
MarkCached(heap, o) == [heap EXCEPT ![o].cached = TRUE]

\* if cached: cached['cached'] = True; return cached
Hit(c) ==
    /\ pc[c] = "hit"
    /\ objs' = MarkCached(objs, frame[c].cached_data.result)
    /\ Return(c, frame[c].cached_data.result)
    /\ UNCHANGED <<now, ttl, ACTIVE_SCANS, scan_info, SCAN_RESULTS, cache, handler,
                   start_resp, closure, reader, budgets, history, harness>>

\* CacheManager.get: del self.cache[key]; return None
GetDel(c) ==
    /\ pc[c] = "get_del"
    /\ IF InCache(cache, get_key(frame[c].command))
       THEN /\ cache' = Evict(cache, get_key(frame[c].command))
            /\ pc' = [pc EXCEPT ![c] = "exec"]
            /\ frame' = frame
       ELSE /\ cache' = cache
            /\ Raise(c)
    /\ UNCHANGED <<now, ttl, registry, objs, handler, start_resp, closure, reader,
                   budgets, history, harness>>

\* result = CommandExecutor.execute(command, timeout=...);
\* if result['success']: result['parsed'] = ...
Exec(c) ==
    /\ pc[c] = "exec"
    /\ \E proc \in Procs(frame[c].tool) :
          objs' = (ObjId(c, frame[c].tool) :>
                     WithParsed(frame[c].tool, Execute(frame[c].command, proc))) @@ objs
    /\ frame' = [frame EXCEPT ![c].ret = ObjId(c, frame[c].tool)]
    /\ pc' = [pc EXCEPT ![c] = "set"]
    /\ UNCHANGED <<now, ttl, registry, cache, handler, start_resp, closure, reader,
                   budgets, history, harness>>

\* cache_manager.set(command, result); return result
Set(c) ==
    /\ pc[c] = "set"
    /\ cache' = CacheSet(cache, frame[c].command, frame[c].ret, now)
    /\ Return(c, frame[c].ret)
    /\ UNCHANGED <<now, ttl, ACTIVE_SCANS, scan_info, SCAN_RESULTS, objs, handler,
                   start_resp, closure, reader, budgets, history, harness>>

\* ------------------------------------------------- the ad-hoc nmap endpoint
\* nmap_scan_endpoint: result = ReconTools.nmap_scan(target, scan_type, ports, ...)
AdhocNmap(req) ==
    /\ pc[AdHoc] \in {"idle", "returned", "failed"}
    /\ calls < MaxCalls
    /\ req.target /= ""
    /\ calls' = calls + 1
    /\ pc' = [pc EXCEPT ![AdHoc] = "get_in"]
    /\ frame' = [frame EXCEPT ![AdHoc] =
           Call("nmap", NmapCommand(req.target, req.scan_type, req.ports,
                                    req.additional_args)).frame]
    /\ UNCHANGED <<now, ttl, registry, cache, objs, handler, start_resp, closure,
                   reader, clears, history, harness>>

\* cache_clear_endpoint: cache_manager.clear()
CacheClear ==
    /\ clears < MaxClears
    /\ clears' = clears + 1
    /\ cache' = Clear(cache)
    /\ UNCHANGED <<now, ttl, registry, objs, handler, start_resp, pc, closure,
                   frame, reader, calls, history, harness>>

\* ------------------------------------------ run_comprehensive_scan: the steps
\* start_time = time.time(); results = {'target', 'scan_id', 'start_time'}
Begin(n) ==
    /\ pc[n] = "begin"
    /\ closure' = [closure EXCEPT ![n].start_time = now]
    /\ results' = [results EXCEPT ![n] =
           [NoResults EXCEPT !.target = closure[n].target,
                             !.scan_id = closure[n].scan_id,
                             !.start_time = now]]
    /\ pc' = [pc EXCEPT ![n] = ResumeAt(n, "nmap").pc]
    /\ frame' = [frame EXCEPT ![n] = ResumeAt(n, "nmap").frame]
    /\ UNCHANGED <<now, ttl, ACTIVE_SCANS, scan_info, SCAN_RESULTS, cache, objs,
                   handler, start_resp, reader, budgets, history, harness>>

\* results['dns'] = ReconTools.dns_info(target)
StepDns(n) ==
    /\ pc[n] = "dns"
    /\ \E procs \in DnsProcs :
          objs' = (ObjId(n, "dns") :> DnsInfo(closure[n].target, procs)) @@ objs
    /\ results' = [results EXCEPT ![n].dns = ObjId(n, "dns")]
    /\ pc' = [pc EXCEPT ![n] = ResumeAt(n, "gobuster").pc]
    /\ frame' = [frame EXCEPT ![n] = ResumeAt(n, "gobuster").frame]
    /\ UNCHANGED <<now, ttl, ACTIVE_SCANS, scan_info, SCAN_RESULTS, cache, handler,
                   start_resp, closure, reader, budgets, history, harness>>

\* results['httpx'] = ReconTools.httpx_probe(subdomains[:50])
StepHttpx(n) ==
    /\ pc[n] = "httpx"
    /\ \E proc \in HttpxProcs :
          objs' = (ObjId(n, "httpx") :>
                     HttpxProbe(FirstN(objs[results[n].subfinder].parsed.lines, HttpxLimit),
                                "", proc)) @@ objs
    /\ results' = [results EXCEPT ![n].httpx = ObjId(n, "httpx")]
    /\ log' = Append(log, [op |-> "fanout", job |-> n,
                           targets |-> FirstN(objs[results[n].subfinder].parsed.lines,
                                              HttpxLimit)])
    /\ pc' = [pc EXCEPT ![n] = "total"]
    /\ UNCHANGED <<now, ttl, ACTIVE_SCANS, scan_info, SCAN_RESULTS, cache, handler,
                   start_resp, closure, frame, reader, budgets, history, ops>>

\* results['total_duration'] = time.time() - start_time; results['end_time'] = ...
StepTotal(n) ==
    /\ pc[n] = "total"
    /\ results' = [results EXCEPT ![n].total_duration = now - closure[n].start_time,
                                  ![n].end_time = now]
    /\ pc' = [pc EXCEPT ![n] = "store"]
    /\ UNCHANGED <<now, ttl, ACTIVE_SCANS, scan_info, SCAN_RESULTS, cache, objs,
                   handler, start_resp, closure, frame, reader, budgets, history,
                   harness>>

\* A results dictionary as a reader gets it (jsonify): every result dictionary
\* it refers to is read through.
Deref(o) == IF o = NoObj THEN NoParsed ELSE objs[o]
Aggregate(r) ==
    [target |-> r.target, scan_id |-> r.scan_id, start_time |-> r.start_time,
     nmap |-> Deref(r.nmap), dns |-> Deref(r.dns), gobuster |-> Deref(r.gobuster),
     subfinder |-> Deref(r.subfinder), httpx |-> Deref(r.httpx),
     total_duration |-> r.total_duration, end_time |-> r.end_time]

\* a thread that goes on to the 'completed' mark without storing its results
StepStoreSkipped(n) ==
    /\ pc[n] = "store"
    /\ pc' = [pc EXCEPT ![n] = "mark"]
    /\ UNCHANGED <<now, ttl, registry, cache, objs, handler, start_resp, closure,
                   frame, reader, budgets, history, harness>>
\* SCAN_RESULTS[scan_id] = results
StepStore(n) ==
    /\ pc[n] = "store"
    /\ SCAN_RESULTS' = (closure[n].scan_id :> n) @@ SCAN_RESULTS
    /\ stored' = IF closure[n].scan_id \in DOMAIN stored THEN stored
                 ELSE (closure[n].scan_id :> Aggregate(results[n])) @@ stored
    /\ pc' = [pc EXCEPT ![n] = "mark"]
    /\ UNCHANGED <<now, ttl, ACTIVE_SCANS, scan_info, results, cache, objs, handler,
                   start_resp, closure, frame, reader, budgets, observed, harness>>

\* ACTIVE_SCANS[scan_id]['status'] = 'completed'
StepMark(n) ==
    /\ pc[n] = "mark"
    /\ IF closure[n].scan_id \in DOMAIN ACTIVE_SCANS
       THEN /\ scan_info' = [scan_info EXCEPT
                   ![ACTIVE_SCANS[closure[n].scan_id]].status = "completed"]
            /\ pc' = [pc EXCEPT ![n] = "end"]
       ELSE /\ scan_info' = scan_info
            /\ pc' = [pc EXCEPT ![n] = "crashed"]
    /\ UNCHANGED <<now, ttl, ACTIVE_SCANS, SCAN_RESULTS, results, cache, objs, handler,
                   start_resp, closure, frame, reader, budgets, history, harness>>

\* ACTIVE_SCANS[scan_id]['end_time'] = time.time()
StepEnd(n) ==
    /\ pc[n] = "end"
    /\ scan_info' = [scan_info EXCEPT ![ACTIVE_SCANS[closure[n].scan_id]].end_time = now]
    /\ pc' = [pc EXCEPT ![n] = "done"]
    /\ UNCHANGED <<now, ttl, ACTIVE_SCANS, SCAN_RESULTS, results, cache, objs, handler,
                   start_resp, closure, frame, reader, budgets, history, harness>>

\* health_check: 'active_scans': len(ACTIVE_SCANS)
HealthActiveScans(reg) == Cardinality(DOMAIN reg)

\* ------------------------------------- scan_status_endpoint, scan_results_endpoint
\* the ids the start endpoint has returned
Issued == { closure[n].scan_id : n \in { m \in Jobs : handler[m] = "returned" } }

\* the ids a client asks for: every id returned or in use, and one that was
\* never issued
AskIds == Issued \cup DOMAIN ACTIVE_SCANS \cup DOMAIN SCAN_RESULTS \cup {UnknownId}

Idle     == [pc |-> "idle", op |-> "none", id |-> "", ref |-> NoRef, resp |-> NoResp]
NotFound == [code |-> 404, success |-> FALSE]

\* a lookup that takes every id as known
LookupJobDefault(reg, id) == TRUE
\* scan_id in ACTIVE_SCANS
LookupJob(reg, id) == id \in DOMAIN reg

\* if scan_id not in ACTIVE_SCANS: return 404;  scan_info = ACTIVE_SCANS[scan_id]
StatusCheck(id) ==
    /\ reader.pc = "idle"
    /\ reader' = IF LookupJob(ACTIVE_SCANS, id)
                 THEN [pc |-> "response", op |-> "status", id |-> id,
                       ref |-> IF id \in DOMAIN ACTIVE_SCANS THEN ACTIVE_SCANS[id] ELSE 1,
                       resp |-> NoResp]
                 ELSE [pc |-> "reply", op |-> "status", id |-> id, ref |-> NoRef,
                       resp |-> NotFound]
    /\ UNCHANGED <<now, ttl, registry, cache, objs, handler, start_resp, pc, closure,
                   frame, budgets, history, harness>>

\* response = {'scan_id', 'status': scan_info['status'], 'target', 'start_time'}
StatusResponse ==
    /\ reader.pc = "response"
    /\ reader' = [reader EXCEPT !.pc = "if_completed",
                      !.resp = [code |-> 200, scan_id |-> reader.id,
                                status |-> scan_info[reader.ref].status,
                                target |-> scan_info[reader.ref].target,
                                start_time |-> scan_info[reader.ref].start_time,
                                on_completion |-> FALSE, end_time |-> NoTime,
                                duration |-> 0, results_available |-> FALSE]]
    /\ UNCHANGED <<now, ttl, registry, cache, objs, handler, start_resp, pc, closure,
                   frame, budgets, history, harness>>

\* if scan_info['status'] == 'completed':
StatusIfCompleted ==
    /\ reader.pc = "if_completed"
    /\ reader' = IF scan_info[reader.ref].status = "completed"
                 THEN [reader EXCEPT !.pc = "end_time", !.resp.on_completion = TRUE]
                 ELSE [reader EXCEPT !.pc = "reply"]
    /\ UNCHANGED <<now, ttl, registry, cache, objs, handler, start_resp, pc, closure,
                   frame, budgets, history, harness>>

\* response['end_time'] = scan_info.get('end_time')
StatusEndTime ==
    /\ reader.pc = "end_time"
    /\ reader' = [reader EXCEPT !.pc = "duration",
                                !.resp.end_time = scan_info[reader.ref].end_time]
    /\ UNCHANGED <<now, ttl, registry, cache, objs, handler, start_resp, pc, closure,
                   frame, budgets, history, harness>>

\* response['duration'] = scan_info.get('end_time', 0) - scan_info['start_time']
StatusDuration ==
    /\ reader.pc = "duration"
    /\ reader' = [reader EXCEPT !.pc = "available",
           !.resp.duration =
               (IF scan_info[reader.ref].end_time = NoTime THEN 0
                ELSE scan_info[reader.ref].end_time) - scan_info[reader.ref].start_time]
    /\ UNCHANGED <<now, ttl, registry, cache, objs, handler, start_resp, pc, closure,
                   frame, budgets, history, harness>>

\* response['results_available'] = scan_id in SCAN_RESULTS
StatusAvailable ==
    /\ reader.pc = "available"
    /\ reader' = [reader EXCEPT !.pc = "reply",
                                !.resp.results_available = reader.id \in DOMAIN SCAN_RESULTS]
    /\ UNCHANGED <<now, ttl, registry, cache, objs, handler, start_resp, pc, closure,
                   frame, budgets, history, harness>>

\* scan_results_endpoint
ResultLookup(id) ==
    /\ reader.pc = "idle"
    /\ reader' = IF id \in DOMAIN SCAN_RESULTS
                 THEN [pc |-> "reply", op |-> "results", id |-> id, ref |-> NoRef,
                       resp |-> [code |-> 200, body |-> Aggregate(results[SCAN_RESULTS[id]])]]
                 ELSE [pc |-> "reply", op |-> "results", id |-> id, ref |-> NoRef,
                       resp |-> NotFound]
    /\ UNCHANGED <<now, ttl, registry, cache, objs, handler, start_resp, pc, closure,
                   frame, budgets, history, harness>>

\* return jsonify(response): the client has the response.  History: the ids a
\* status response has reported 'completed' for.
Reply ==
    /\ reader.pc = "reply"
    /\ reader' = Idle
    /\ observed' = IF reader.op = "status" /\ reader.resp.code = 200
                      /\ reader.resp.status = "completed"
                   THEN observed \cup {reader.id} ELSE observed
    /\ UNCHANGED <<now, ttl, registry, cache, objs, handler, start_resp, pc, closure,
                   frame, budgets, stored, harness>>

\* ----------------------------------- the cache used by one caller at a time
\* commands nmap_scan builds: the first two have different tokens and equal
\* joined strings, the last two the same tokens in another order
HarnessCommands ==
    { NmapCommand("d.io", "quick", "80 -n", ""), NmapCommand("d.io", "quick", "80", "-n"),
      NmapCommand("d.io", "quick", "", "-n -p 80") }

\* the adapter calls made when the cache is exercised alone, one for each
\* adapter that uses the cache
HarnessCalls ==
    { [tool |-> "nmap", command |-> NmapCommand("d.io", "service", "", "")],
      [tool |-> "gobuster",
       command |-> GobusterCommand("http://u.io", "", "dir", "php,html,txt", "")],
      [tool |-> "subfinder", command |-> SubfinderCommand("d.io", "")] }

\* what the external program does in such a call
CallProcs ==
    { Proc("exit", 0, <<"out">>), Proc("exit", 1, <<>>), Proc("timeout", 0, <<>>),
      Proc("not_found", 0, <<>>) }

\* a hit that counts only when the cached result is a success
TruthyIfSuccess(heap, o) == o /= NoObj /\ heap[o].success
\* if cached: a result dictionary is never empty, so only None is false
Truthy(heap, o) == o /= NoObj

\* nmap_scan, gobuster_scan, subfinder_scan from the cache lookup on, run
\* without interruption: what the call returns, the cache and the heap it leaves.
\* o is the dictionary execute builds if it runs.
AdapterRun(c, heap, tool, command, proc, t, limit, o) ==
    LET got == CacheGet(c, command, t, limit) IN
    IF Truthy(heap, got.ret)
    THEN [ret |-> got.ret, cache |-> got.cache, objs |-> MarkCached(heap, got.ret)]
    ELSE [ret |-> o, cache |-> CacheSet(got.cache, command, o, t),
          objs |-> (o :> WithParsed(tool, Execute(command, proc))) @@ heap]

\* what one operation did: the command, the result it stored or got (for a
\* clear, the endpoint's answer), the clock reading, whether the cache holds the
\* command's key afterwards, and what stats() gives afterwards
Done(op, command, ret, c) ==
    [op |-> op, command |-> command, ret |-> ret, at |-> now,
     kept |-> InCache(c, get_key(command)), stats |-> CacheStats(c, ttl)]

\* result = CommandExecutor.execute(command, ...); cache_manager.set(command, result)
HarnessSet(command, proc) ==
    /\ ops < MaxOps
    /\ ops' = ops + 1
    /\ objs' = (<<AdHoc, ToString(ops)>> :> Execute(command, proc)) @@ objs
    /\ cache' = CacheSet(cache, command, <<AdHoc, ToString(ops)>>, now)
    /\ log' = Append(log, Done("set", command, <<AdHoc, ToString(ops)>>, cache'))
    /\ UNCHANGED <<now, ttl, registry, handler, start_resp, pc, closure, frame,
                   reader, budgets, history>>

\* cached = cache_manager.get(command)
HarnessGet(command) ==
    /\ ops < MaxOps
    /\ ops' = ops + 1
    /\ cache' = CacheGet(cache, command, now, ttl).cache
    /\ log' = Append(log, Done("get", command, CacheGet(cache, command, now, ttl).ret,
                               cache'))
    /\ UNCHANGED <<now, ttl, registry, objs, handler, start_resp, pc, closure, frame,
                   reader, budgets, history>>

\* result = ReconTools.nmap_scan(...) (gobuster_scan, subfinder_scan)
HarnessCall(call, proc) ==
    /\ ops < MaxOps
    /\ ops' = ops + 1
    /\ LET run == AdapterRun(cache, objs, call.tool, call.command, proc, now, ttl,
                             <<AdHoc, ToString(ops)>>)
       IN /\ cache' = run.cache
          /\ objs' = run.objs
          /\ log' = Append(log, Done("call", call.command, run.ret, run.cache))
    /\ UNCHANGED <<now, ttl, registry, handler, start_resp, pc, closure, frame,
                   reader, budgets, history>>

\* ------------------------------------------- the functions called directly
\* commands handed to execute: two that adapters build and the empty list
RunCommands == { <<>>, NmapCommand("d.io", "quick", "", ""), SubfinderCommand("d.io", "") }

\* what the external program does: it exits with 0, with 1 or killed by a
\* signal (a negative code), outlives the timeout having written part of its
\* output, cannot be found, or cannot be started
RunProcs ==
    { Proc("exit", 0, <<"out">>), Proc("exit", 1, <<>>), Proc("exit", 0 - 1, <<>>),
      Proc("timeout", 0, <<"part">>), Proc("not_found", 0, <<>>),
      Proc("oserror", 0, <<>>) }

\* result = CommandExecutor.execute(command)
HarnessRun(command, proc) ==
    /\ ops < MaxOps
    /\ ops' = ops + 1
    /\ objs' = (<<AdHoc, ToString(ops)>> :> Execute(command, proc)) @@ objs
    /\ log' = Append(log, [op |-> "run", command |-> command,
                           proc |-> Popen(command, proc),
                           ret |-> <<AdHoc, ToString(ops)>>])
    /\ UNCHANGED <<now, ttl, registry, cache, handler, start_resp, pc, closure,
                   frame, reader, budgets, history>>

\* what httpx does when called directly: as in the pipeline, or it exits with
\* 1, prints a line that is no JSON, or cannot be found
ProbeProcs ==
    HttpxProcs \cup { Proc("exit", 1, <<>>), Proc("exit", 0, <<"obj", "junk">>),
                      Proc("not_found", 0, <<>>) }

\* result = ReconTools.httpx_probe(['d.io'])
HarnessProbe(proc) ==
    /\ ops < MaxOps
    /\ ops' = ops + 1
    /\ objs' = (<<AdHoc, ToString(ops)>> :> HttpxProbe(<<"d.io">>, "", proc)) @@ objs
    /\ log' = Append(log, [op |-> "probe", command |-> HttpxCommand(""),
                           proc |-> proc, ret |-> <<AdHoc, ToString(ops)>>])
    /\ UNCHANGED <<now, ttl, registry, cache, handler, start_resp, pc, closure,
                   frame, reader, budgets, history>>

\* result = ReconTools.dns_info('d.io')
HarnessDns(procs) ==
    /\ ops < MaxOps
    /\ ops' = ops + 1
    /\ objs' = (<<AdHoc, ToString(ops)>> :> DnsInfo("d.io", procs)) @@ objs
    /\ log' = Append(log, [op |-> "dns", command |-> <<"nslookup">>,
                           proc |-> procs[1], ret |-> <<AdHoc, ToString(ops)>>,
                           lookups |-> DnsLookups("d.io"),
                           failed |-> { i \in 1 .. Len(procs) : procs[i].kind /= "exit"
                                                              \/ procs[i].code /= 0 }])
    /\ UNCHANGED <<now, ttl, registry, cache, handler, start_resp, pc, closure,
                   frame, reader, budgets, history>>

\* How long the process of a timed call takes: one that exits does so before
\* the timeout; one that outlives it is waited for during the whole timeout
\* and then killed and drained, which takes delay ticks; a failed spawn takes
\* delay ticks.
Elapsed(kind, delay) == IF kind = "timeout" THEN RunTimeout + delay ELSE delay

\* result = CommandExecutor.execute(command, timeout=RunTimeout), with the
\* clock read before and after
HarnessTimed(command, proc, delay) ==
    /\ ops < MaxOps
    /\ ops' = ops + 1
    /\ now' = now + Elapsed(proc.kind, delay)
    /\ objs' = (<<AdHoc, ToString(ops)>> :>
                  ([execution_time |-> ExecutionTime(proc.kind, now, now', RunTimeout)]
                   @@ Execute(command, proc))) @@ objs
    /\ log' = Append(log, [op |-> "timed", command |-> command, proc |-> proc,
                           ret |-> <<AdHoc, ToString(ops)>>,
                           start |-> now, end |-> now'])
    /\ UNCHANGED <<ttl, registry, cache, handler, start_resp, pc, closure,
                   frame, reader, budgets, history>>

\* ------------------------------------- command building and output parsing
\* parameters of nmap_scan: the four modes the function names and one it does
\* not, with and without ports, with additional arguments separated by one
\* blank, by several, or absent
BuildRequests ==
    [target : {"d.io"},
     scan_type : {"quick", "full", "service", "vuln", "stealth"},
     ports : {"", "80,443"},
     additional_args : {"", "-n -Pn", " -n   -Pn "}]

\* command = [...] as nmap_scan builds it, and the key the cache uses for it
HarnessBuild(req) ==
    /\ ops < MaxOps
    /\ ops' = ops + 1
    /\ log' = Append(log, [op |-> "build", req |-> req,
                           command |-> NmapCommand(req.target, req.scan_type, req.ports,
                                                   req.additional_args),
                           key |-> get_key(NmapCommand(req.target, req.scan_type,
                                                       req.ports, req.additional_args))])
    /\ UNCHANGED <<now, ttl, registry, cache, objs, handler, start_resp, pc, closure,
                   frame, reader, budgets, history>>

\* what gobuster writes: lines of a run with their status, a path alone, a
\* path with a size only, a URL, lines that are no entry, an empty output
GobusterOutputs ==
    { <<"Starting gobuster", "/admin (Status: 200)", "/login (Status: 200)",
        "/old (Status: 301)", "Finished", "">>,
      <<"/admin">>,
      <<"/img [Size: 12]">>,
      <<"http://u.io/x (Status: 301)">>,
      <<"https://u.io/y">>,
      <<"httpx is not a path">>,
      <<" /indented (Status: 200)">>,
      <<"Error: timeout">>,
      <<>> }

\* parsed = ReconTools._parse_gobuster_output(output)
HarnessGobusterParse(lines) ==
    /\ ops < MaxOps
    /\ ops' = ops + 1
    /\ log' = Append(log, [op |-> "gobuster_parse", lines |-> lines,
                           parsed |-> ParseGobusterOutput(lines)])
    /\ UNCHANGED <<now, ttl, registry, cache, objs, handler, start_resp, pc, closure,
                   frame, reader, budgets, history>>

\* what subfinder writes: names, twice the same name, blank lines and lines
\* of blanks among them, names with blanks around them, nothing
SubfinderOutputs ==
    { <<"a.d.io", "b.d.io", "">>,
      <<"b.d.io", "", "a.d.io", "b.d.io", "">>,
      <<" a.d.io ", "  ", "a.d.io">>,
      <<"", "  ">>,
      <<>> }

\* subfinder exits with 0 or with 1
SubfinderCodes == {0, 1}

\* the execute and the parsing of subfinder_scan on what subfinder wrote
HarnessSubfinderParse(lines, code) ==
    /\ ops < MaxOps
    /\ ops' = ops + 1
    /\ log' = Append(log, [op |-> "subfinder_parse", lines |-> lines,
                           result |-> WithParsed("subfinder",
                                                 Execute(SubfinderCommand("d.io", ""),
                                                         Proc("exit", code, lines)))])
    /\ UNCHANGED <<now, ttl, registry, cache, objs, handler, start_resp, pc, closure,
                   frame, reader, budgets, history>>

\* --------------------------------------------- recon_mcp.py: ReconClient
MAX_RETRIES == 3

\* What the server does with one GET /health: it answers 200 with a JSON
\* object ("ok"), refuses the connection ("refused"), or answers 200 with JSON
\* that is no object ("not_object"), on which health.get raises.
AttemptKinds == {"ok", "refused", "not_object"}

\* The loop of ReconClient.__init__ from its i-th pass on: connected = True
\* follows response.json(), the break follows the logging of the health
\* fields, and both except clauses go on to the next pass.
RECURSIVE Connect(_, _, _)
Connect(outcomes, i, connected) ==
    IF i > MAX_RETRIES THEN [attempts |-> MAX_RETRIES, connected |-> connected]
    ELSE IF outcomes[i] = "ok" THEN [attempts |-> i, connected |-> TRUE]
    ELSE IF outcomes[i] = "not_object" THEN Connect(outcomes, i + 1, TRUE)
    ELSE Connect(outcomes, i + 1, connected)

\* ReconClient.__init__: the attempts it makes and whether it raises ConnectionError
ReconClientInit(outcomes) ==
    [attempts |-> Connect(outcomes, 1, FALSE).attempts,
     raised |-> ~Connect(outcomes, 1, FALSE).connected]

\* client = ReconClient(server_url)
HarnessConnect(outcomes) ==
    /\ ops < MaxOps
    /\ ops' = ops + 1
    /\ log' = Append(log, [op |-> "connect", outcomes |-> outcomes,
                           ret |-> ReconClientInit(outcomes)])
    /\ UNCHANGED <<now, ttl, registry, cache, objs, handler, start_resp, pc, closure,
                   frame, reader, budgets, history>>

\* cache_manager.clear()
HarnessClear ==
    /\ ops < MaxOps
    /\ ops' = ops + 1
    /\ cache' = Clear(cache)
    /\ log' = Append(log, Done("clear", <<>>, ClearResponse, cache'))
    /\ UNCHANGED <<now, ttl, registry, objs, handler, start_resp, pc, closure, frame,
                   reader, budgets, history>>

\* ---------------------------------------------------------- the system
\* the closing statements of a background thread
Finish(n) ==
    \/ StepTotal(n)
    \/ StepStore(n)
    \/ StepMark(n)
    \/ StepEnd(n)

\* a background thread's next statement
Pipeline(n) ==
    \/ Begin(n)
    \/ StepDns(n)
    \/ StepHttpx(n)
    \/ Finish(n)

\* the next statement of an adapter call that finds no entry for its command
Miss(c) ==
    \/ GetIn(c)
    \/ Exec(c)
    \/ Set(c)

\* the next statement of the adapter call caller c is in
Adapter(c) ==
    \/ Miss(c)
    \/ GetRead(c)
    \/ GetAge(c)
    \/ Hit(c)
    \/ GetDel(c)

\* the start endpoint, for the n-th request, with scan_types drawn from choices
StartOn(n, targets, choices) ==
    \/ \E target \in targets, scan_types \in choices : StartHash(n, target, scan_types)
    \/ StartRegister(n)
    \/ StartThread(n)
    \/ StartReturn(n)

Start(n, choices) == StartOn(n, Targets, choices)

\* the status endpoint
Status ==
    \/ \E id \in AskIds : StatusCheck(id)
    \/ StatusResponse
    \/ StatusIfCompleted
    \/ StatusEndTime
    \/ StatusDuration
    \/ StatusAvailable

\* One comprehensive scan with every tool of the pipeline, polled through the
\* status and results endpoints.  No two adapter calls of one scan run the same
\* command, so the scan finds no entry in the cache.
Next ==
    \/ Tick
    \/ StartReject
    \/ StartOn(1, ScanTargets, BranchChoices)
    \/ Pipeline(1)
    \/ Miss(1)
    \/ Status
    \/ \E id \in AskIds : ResultLookup(id)
    \/ Reply

Spec == Init /\ [][Next]_vars

\* Several start requests, for scans that ask for no tool, polled through the
\* status and results endpoints.
RegistryNext ==
    \/ Tick
    \/ \E n \in Jobs : Start(n, NoTools)
    \/ \E n \in Jobs : Begin(n) \/ Finish(n)
    \/ Status
    \/ \E id \in AskIds : ResultLookup(id)
    \/ Reply

RegistrySpec == Init /\ [][RegistryNext]_vars

\* One comprehensive scan next to ad-hoc nmap requests and cache clears, its
\* results read through the results endpoint.
ToolNext ==
    \/ Tick
    \/ Start(1, ScanTypeChoices)
    \/ Pipeline(1)
    \/ \E c \in {AdHoc, 1} : Adapter(c)
    \/ \E req \in NmapRequests : AdhocNmap(req)
    \/ CacheClear
    \/ \E id \in AskIds : ResultLookup(id)
    \/ Reply

ToolSpec == Init /\ [][ToolNext]_vars

\* The cache manager used by one caller at a time.
CacheNext ==
    \/ Tick
    \/ \E command \in HarnessCommands, proc \in HarnessProcs : HarnessSet(command, proc)
    \/ \E command \in HarnessCommands : HarnessGet(command)
    \/ \E call \in HarnessCalls, proc \in CallProcs : HarnessCall(call, proc)
    \/ HarnessClear

CacheSpec == Init /\ [][CacheNext]_vars

\* The command runner called directly.
RunnerNext ==
    \/ \E command \in RunCommands, proc \in RunProcs : HarnessRun(command, proc)
    \/ \E proc \in ProbeProcs : HarnessProbe(proc)
    \/ \E procs \in DnsProcs : HarnessDns(procs)
    \/ \E proc \in RunProcs, delay \in 0 .. MaxDelay :
          HarnessTimed(NmapCommand("d.io", "quick", "", ""), proc, delay)

RunnerSpec == Init /\ [][RunnerNext]_vars

\* The adapters' command building and parsing, called directly.
AdapterNext ==
    \/ \E req \in BuildRequests : HarnessBuild(req)

AdapterSpec == Init /\ [][AdapterNext]_vars

\* The adapters' parsing of what the tools wrote, called directly.
ParserNext ==
    \/ \E lines \in GobusterOutputs : HarnessGobusterParse(lines)
    \/ \E lines \in SubfinderOutputs, code \in SubfinderCodes :
          HarnessSubfinderParse(lines, code)

ParserSpec == Init /\ [][ParserNext]_vars

\* The MCP client constructed against servers of every behaviour.
ClientNext ==
    \E outcomes \in [1 .. MAX_RETRIES -> AttemptKinds] : HarnessConnect(outcomes)

ClientSpec == Init /\ [][ClientNext]_vars

\* ------------------------------------------------------------ properties
\* the job the registry holds under id
JobOf(id) == scan_info[ACTIVE_SCANS[id]]

\* a status response that has been assembled up to its status, for a known id
Answered == reader.op = "status" /\ reader.resp.code = 200

\* C1: once a status response has reported 'completed' for an id, no later
\* status response for that id reports 'running'.
JobMonotonicity ==
    (Answered /\ reader.id \in observed) => reader.resp.status = "completed"

\* C2: for every job id, an aggregate is stored under the id exactly when the
\* job registered under the id has status 'completed'.
AggregateIffCompleted ==
    \A id \in DOMAIN ACTIVE_SCANS \cup DOMAIN SCAN_RESULTS :
        id \in DOMAIN SCAN_RESULTS
            <=> (id \in DOMAIN ACTIVE_SCANS /\ JobOf(id).status = "completed")

\* C3: the ids two start requests have returned differ, and the registry holds
\* each returned id for the request it was returned to.
IdNeverReused ==
    \A n, m \in Jobs :
        (n /= m /\ handler[n] = "returned" /\ handler[m] = "returned")
            => /\ closure[n].scan_id /= closure[m].scan_id
               /\ ACTIVE_SCANS[closure[n].scan_id] = n

\* C4: a background thread ends only with its job 'completed'.  A thread that
\* has ended takes no further step, so a job it leaves 'running' stays so
\* whatever the scheduler does.
EveryJobCompletes ==
    \A n \in Jobs :
        pc[n] \in {"done", "crashed"}
            => /\ closure[n].scan_id \in DOMAIN ACTIVE_SCANS
               /\ JobOf(closure[n].scan_id).status = "completed"

\* C5: a status response that reports 'completed' carries an end_time that is
\* set and a duration equal to end_time - start_time and not negative.
NoHalfWrittenStatus ==
    (Answered /\ reader.pc = "reply" /\ reader.resp.status = "completed")
        => /\ reader.resp.on_completion
           /\ reader.resp.end_time /= NoTime
           /\ reader.resp.duration = reader.resp.end_time - reader.resp.start_time
           /\ reader.resp.duration >= 0

\* C6: a start request that has registered its job has registered it as
\* 'running' before the thread exists; an id that start has returned is in the
\* registry, and no status response for a returned id is the not-found signal.
StartRegistersBeforeReturn ==
    /\ \A n \in Jobs :
          /\ handler[n] = "registered"
                => /\ closure[n].scan_id \in DOMAIN ACTIVE_SCANS
                   /\ JobOf(closure[n].scan_id).status = "running"
                   /\ pc[n] = "idle"
          /\ handler[n] = "returned" => closure[n].scan_id \in DOMAIN ACTIVE_SCANS
    /\ (reader.op = "status" /\ reader.pc = "reply" /\ reader.id \in Issued)
          => reader.resp /= NotFound

\* C6, its case: start has returned the id while the thread has not run its
\* first statement, and a status response for the id reports 'running'.
StartReturnedEarly ==
    /\ handler[1] = "returned"
    /\ pc[1] = "begin"
    /\ Answered /\ reader.pc = "reply"
    /\ reader.id = closure[1].scan_id
    /\ reader.resp.status = "running"

\* no start request has computed id
NeverIssued(id) == \A n \in Jobs : handler[n] /= "none" => closure[n].scan_id /= id

\* C7: a status lookup or a result lookup of an id that was never issued answers
\* with the not-found signal and changes neither the job registry nor the
\* result store.
UnknownIdNotFound ==
    [][\A id \in AskIds :
          (NeverIssued(id) /\ (StatusCheck(id) \/ ResultLookup(id)))
              => /\ reader'.pc = "reply"
                 /\ reader'.resp = NotFound
                 /\ UNCHANGED registry]_vars

\* C7, its case: with a job registered and its aggregate stored, a lookup of an
\* id that was never issued has been answered.
UnknownIdAnswered ==
    /\ reader.pc = "reply"
    /\ NeverIssued(reader.id)
    /\ reader.resp = NotFound
    /\ ACTIVE_SCANS /= Empty
    /\ SCAN_RESULTS /= Empty

\* C8: a result lookup made when the job is 'completed' returns the aggregate
\* as it was when it was stored.
AggregateReadOnly ==
    [][\A id \in DOMAIN SCAN_RESULTS :
          (/\ ResultLookup(id)
           /\ id \in DOMAIN ACTIVE_SCANS
           /\ JobOf(id).status = "completed")
              => reader'.resp.body = stored[id]]_vars

\* between operations i and j the cache is not cleared and nothing is stored
\* for the command of operation i
Untouched(i, j) ==
    \A k \in (i + 1) .. (j - 1) :
        /\ log[k].op /= "clear"
        /\ ~(log[k].op = "set" /\ Join(log[k].command) = Join(log[i].command))

\* C9: an entry stored at time T is returned by a lookup at a time before
\* T + ttl; a lookup at T + ttl or later returns absent and removes the entry.
CacheTTL ==
    \A i, j \in 1 .. Len(log) :
        (/\ i < j
         /\ log[i].op = "set"
         /\ log[j].op = "get"
         /\ Join(log[j].command) = Join(log[i].command)
         /\ Untouched(i, j))
            => IF log[j].at < log[i].at + ttl
               THEN log[j].ret = log[i].ret /\ log[j].kept
               ELSE log[j].ret = NoObj /\ ~log[j].kept

\* C9, its case: an entry was stored, returned by a lookup within the TTL and
\* reported absent and removed by a lookup at the end of the TTL.
CacheTTLBothSides ==
    /\ Len(log) = 3
    /\ log[1].op = "set" /\ log[2].op = "get" /\ log[3].op = "get"
    /\ log[2].command = log[1].command /\ log[3].command = log[1].command
    /\ log[2].ret = log[1].ret
    /\ log[3].at = log[1].at + ttl
    /\ log[3].ret = NoObj /\ ~log[3].kept

\* C10: a lookup that follows a store, with lookups only in between and within
\* the TTL, returns the stored result exactly when the two commands have equal
\* space-joined strings.
CacheDeterminism ==
    \A i, j \in 1 .. Len(log) :
        (/\ i < j
         /\ log[i].op = "set"
         /\ log[j].op = "get"
         /\ \A k \in (i + 1) .. (j - 1) : log[k].op = "get"
         /\ log[j].at < log[i].at + ttl)
            => (log[j].ret = log[i].ret
                    <=> Join(log[j].command) = Join(log[i].command))

\* the tokens of a command, whatever their order
Tokens(command) == { command[i] : i \in 1 .. Len(command) }

\* C10, its case: a failed result stored for one command was returned for a
\* command with other tokens and the same joined string, and not returned for
\* a command with the same tokens in another order.
CacheDeterminismBothWays ==
    /\ Len(log) = 3
    /\ log[1].op = "set" /\ log[2].op = "get" /\ log[3].op = "get"
    /\ ~objs[log[1].ret].success
    /\ log[2].command /= log[1].command
    /\ log[2].ret = log[1].ret
    /\ log[3].command /= log[2].command
    /\ Tokens(log[3].command) = Tokens(log[2].command)
    /\ log[3].ret = NoObj

\* operation i built a result dictionary of its own: execute ran
Ran(i) == log[i].ret = <<AdHoc, ToString(i - 1)>>

\* C11: after an adapter call whose command failed, a call with the same
\* command, made before the TTL has passed and with no clear in between,
\* returns the dictionary of the failed call, marked as cached, and does not
\* run the command.
FailedOutcomesCached ==
    \A i, j \in 1 .. Len(log) :
        (/\ i < j
         /\ log[i].op = "call" /\ log[j].op = "call"
         /\ Ran(i)
         /\ ~objs[log[i].ret].success
         /\ log[j].command = log[i].command
         /\ \A k \in (i + 1) .. (j - 1) : log[k].op /= "clear"
         /\ log[j].at < log[i].at + ttl)
            => /\ log[j].ret = log[i].ret
               /\ ~Ran(j)
               /\ objs[log[j].ret].cached

\* C11, its case: a call timed out, another ended with a non-zero exit code,
\* and a second call of the first command got the timed-out dictionary back.
FailedOutcomeReturned ==
    /\ Len(log) = 3
    /\ log[1].op = "call" /\ log[2].op = "call" /\ log[3].op = "call"
    /\ Ran(1) /\ objs[log[1].ret].timeout
    /\ Ran(2) /\ objs[log[2].ret].exit_code = 1
    /\ log[3].command = log[1].command
    /\ log[3].ret = log[1].ret
    /\ objs[log[3].ret].cached

\* C12: with adapter calls and clears interleaved statement by statement, no
\* call ends in an exception and every key of the cache maps to an entry with
\* its result and its timestamp.
CacheSafeConcurrent ==
    /\ \A c \in Callers : pc[c] \notin {"crashed", "failed"}
    /\ \A key \in DOMAIN cache :
          cache[key].result /= NoObj /\ cache[key].timestamp /= NoTime

\* C13: every clear answers success and leaves the cache with size 0 and the
\* TTL it had, whether or not the cache was empty before.
ClearIdempotent ==
    \A i \in 1 .. Len(log) :
        log[i].op = "clear"
            => /\ log[i].ret.success
               /\ log[i].stats.size = 0
               /\ log[i].stats.ttl = ttl
               /\ cache = Empty \/ \E k \in (i + 1) .. Len(log) : log[k].op /= "clear"

\* C13, its case: an entry was stored, the cache was cleared, and the empty
\* cache was cleared again.
ClearedTwice ==
    /\ Len(log) = 3
    /\ log[1].op = "set" /\ log[1].stats.size = 1
    /\ log[2].op = "clear" /\ log[3].op = "clear"
    /\ log[3].ret.success
    /\ cache = Empty

\* the failure classes an outcome is marked with
Flags(r) == { f \in {"timeout", "not_found", "error"} : r[f] }

\* the failure class of what the process did
ClassOf(kind) ==
    IF kind = "timeout" THEN {"timeout"}
    ELSE IF kind = "not_found" THEN {"not_found"}
    ELSE IF kind = "oserror" THEN {"error"}
    ELSE {}

\* C14: execute returns an outcome for every command and every behaviour of
\* the process and raises nothing; the outcome is marked with exactly the class
\* of what happened, with success false and exit_code -1 in the three failure
\* classes and success = (exit_code = 0) on normal completion.
RunnerNeverRaises ==
    \A i \in 1 .. Len(log) :
        log[i].op = "run"
            => LET r == objs[log[i].ret] IN
               /\ r /= Raised
               /\ Flags(r) = ClassOf(log[i].proc.kind)
               /\ Flags(r) /= {} => (~r.success /\ r.exit_code = 0 - 1)
               /\ Flags(r) = {}
                     => (r.exit_code = log[i].proc.code /\ r.success = (r.exit_code = 0))
               /\ r.command = Join(log[i].command)

\* C14, its case: execute was called with the empty list, with a program that
\* cannot be found and with a program that exits with 1.
RunnerAllClasses ==
    /\ Len(log) = 3
    /\ log[1].command = <<>> /\ objs[log[1].ret].error
    /\ objs[log[2].ret].not_found
    /\ objs[log[3].ret].exit_code = 1 /\ ~objs[log[3].ret].success

\* C15: when the process outlives the timeout the outcome is marked timed out,
\* with success false and exit_code -1, and carries the stdout and the stderr
\* the process had written.
TimeoutEnforced ==
    \A i \in 1 .. Len(log) :
        (log[i].op = "run" /\ log[i].proc.kind = "timeout")
            => LET r == objs[log[i].ret] IN
               /\ r.timeout /\ ~r.success /\ r.exit_code = 0 - 1
               /\ r.stdout = log[i].proc.stdout
               /\ r.stderr = log[i].proc.stderr

\* C16: httpx_probe, which feeds its targets on stdin, answers a timeout and a
\* missing program as execute does: nothing is raised, and the outcome is
\* marked timed out, respectively not found, with success false and
\* exit_code -1.
ProbeSameFailureSemantics ==
    \A i \in 1 .. Len(log) :
        log[i].op = "probe"
            => LET r == objs[log[i].ret] IN
               /\ r /= Raised
               /\ Flags(r) = ClassOf(log[i].proc.kind)
               /\ Flags(r) /= {} => (~r.success /\ r.exit_code = 0 - 1)

\* C17: an httpx run that exits with 0 is reported as a success whatever its
\* output lines are; a line the parser cannot use does not turn it into a
\* failure.
ParseNeverDowngrades ==
    \A i \in 1 .. Len(log) :
        (log[i].op = "probe" /\ log[i].proc.kind = "exit" /\ log[i].proc.code = 0)
            => /\ objs[log[i].ret].success
               /\ objs[log[i].ret].exit_code = 0

\* the keys every adapter result is said to have
CommonKeys == {"success", "stdout", "stderr", "exit_code", "command"}

\* C18: what an adapter returns has the keys success, stdout, stderr,
\* exit_code and command on every path, and a parsed summary whenever success
\* is true.
AdapterResultShape ==
    \A i \in 1 .. Len(log) :
        log[i].op \in {"probe", "dns"}
            => LET r == objs[log[i].ret] IN
               /\ CommonKeys \subseteq DOMAIN r
               /\ r.success => ("parsed" \in DOMAIN r /\ r.parsed /= NoParsed)

\* a target that begins with 'http://' or 'https://'
UrlShaped(target) ==
    \E scheme \in {"http://", "https://"} :
        Len(target) >= Len(scheme) /\ SubSeq(target, 1, Len(scheme)) = scheme

\* the thread of job n has passed every tool of the pipeline
PastTools(n) == pc[n] \in {"total", "store", "mark", "end", "done"}

\* C19: for a URL-shaped target gobuster has run exactly if it was requested,
\* and subfinder and httpx have not run, requested or not; for any other target
\* gobuster has not run.
BranchingByTarget ==
    \A n \in Jobs :
        PastTools(n)
            => /\ UrlShaped(closure[n].target)
                    => /\ results[n].gobuster /= NoObj
                            <=> "gobuster" \in closure[n].scan_types
                       /\ results[n].subfinder = NoObj
                       /\ results[n].httpx = NoObj
               /\ ~UrlShaped(closure[n].target) => results[n].gobuster = NoObj

\* C19, its case: a scan of a URL that asked for gobuster, subfinder and httpx
\* has ended with a gobuster result and none of subfinder.
UrlScanRanGobusterOnly ==
    /\ pc[1] = "done"
    /\ UrlShaped(closure[1].target)
    /\ {"gobuster", "subfinder", "httpx"} \subseteq closure[1].scan_types
    /\ results[1].gobuster /= NoObj
    /\ results[1].subfinder = NoObj

\* C20: for a target that is not URL-shaped, a host name that begins with
\* 'http' included, subfinder has run whenever it was requested.
SubfinderOnEveryHost ==
    \A n \in Jobs :
        (PastTools(n) /\ ~UrlShaped(closure[n].target)
                      /\ "subfinder" \in closure[n].scan_types)
            => results[n].subfinder /= NoObj

\* the subdomains the subfinder step of job n found, none if it did not run
\* or did not succeed
Discovered(n) ==
    IF results[n].subfinder = NoObj THEN <<>>
    ELSE IF ~objs[results[n].subfinder].success THEN <<>>
    ELSE objs[results[n].subfinder].parsed.lines

\* C21: once the pipeline of a job is past its tools, its results hold an
\* httpx result exactly if subfinder ran in the job, succeeded and found at
\* least one subdomain, and httpx_probe was then called once, with the first
\* min(50, n) of the n subdomains found, in the order found.
FanOut ==
    \A n \in Jobs :
        PastTools(n)
            => /\ results[n].httpx /= NoObj <=> Len(Discovered(n)) > 0
               /\ results[n].httpx /= NoObj
                    => /\ Cardinality({ i \in 1 .. Len(log) : log[i].job = n }) = 1
                       /\ \A i \in 1 .. Len(log) :
                             log[i].job = n
                                => log[i].targets =
                                     SubSeq(Discovered(n), 1,
                                            IF Len(Discovered(n)) < 50
                                            THEN Len(Discovered(n)) ELSE 50)
               /\ results[n].httpx = NoObj => \A i \in 1 .. Len(log) : log[i].job /= n

\* C21, its case: a scan that did not ask for httpx has ended with an httpx
\* result, its subfinder step having found more than 50 subdomains.
FanOutOverLimit ==
    /\ pc[1] = "done"
    /\ "httpx" \notin closure[1].scan_types
    /\ results[1].httpx /= NoObj
    /\ Len(Discovered(1)) > 50
    /\ Len(log) = 1 /\ Len(log[1].targets) = 50

\* C22: the DNS result of a job has an entry under each of A, AAAA, MX, NS,
\* TXT and CNAME, the output of the lookup or an error string for a lookup
\* that failed, whatever happened to the lookups of the other types.
DnsEveryTypeRecorded ==
    \A n \in Jobs :
        results[n].dns /= NoObj
            => \A i \in 1 .. Len(RecordTypes) :
                  RecordTypes[i] \in DOMAIN objs[results[n].dns].records

\* the steps of the pipeline in the order the claim gives them
StepOrder == <<"nmap", "dns", "gobuster", "subfinder", "httpx">>

\* the step the thread of job n is in, "" between steps
InStep(n) ==
    IF pc[n] \in {"get_in", "get_read", "get_age", "hit", "get_del", "exec", "set"}
    THEN frame[n].tool
    ELSE IF pc[n] \in {"dns", "httpx"} THEN pc[n]
    ELSE ""

\* C23: while a step of a job runs, neither it nor any later step of the job
\* has returned a result, and the aggregate is stored and the job is marked
\* 'completed' only when the thread is in no step and past all of them.
StepsInOrder ==
    \A n \in Jobs :
        /\ \A i, j \in 1 .. Len(StepOrder) :
              (InStep(n) = StepOrder[i] /\ i <= j) => results[n][StepOrder[j]] = NoObj
        /\ \A id \in DOMAIN SCAN_RESULTS : SCAN_RESULTS[id] = n => PastTools(n)
        /\ scan_info[n].status = "completed" => PastTools(n)

\* C23, its case: the last step of a job that ran four steps is running, the
\* earlier three have returned, nothing is stored or marked yet.
LastStepRunning ==
    /\ InStep(1) = "httpx"
    /\ results[1].nmap /= NoObj /\ results[1].dns /= NoObj
    /\ results[1].subfinder /= NoObj
    /\ SCAN_RESULTS = Empty
    /\ scan_info[1].status = "running"

\* the tools whose result is a command outcome
OutcomeTools == {"nmap", "gobuster", "subfinder", "httpx"}

\* C24: the aggregate of a completed job holds a port-scan result exactly if
\* nmap was requested and a DNS result exactly if dns was requested, whether
\* or not earlier steps succeeded, and holds the outcome of every step that
\* ran, a failed one as the failed outcome it returned.
FailedStepCarried ==
    \A n \in Jobs :
        scan_info[n].status = "completed"
            => LET agg == stored[closure[n].scan_id] IN
               /\ agg.nmap /= NoParsed <=> "nmap" \in closure[n].scan_types
               /\ agg.dns /= NoParsed <=> "dns" \in closure[n].scan_types
               /\ \A tool \in OutcomeTools :
                     results[n][tool] /= NoObj
                        => /\ agg[tool] = objs[results[n][tool]]
                           /\ ~agg[tool].success => agg[tool].parsed = NoParsed

\* C24, its case: a job has completed whose port scan failed and whose
\* aggregate holds the failed port scan and the results of the later DNS and
\* subfinder steps.
LaterStepsAfterFailure ==
    /\ scan_info[1].status = "completed"
    /\ closure[1].scan_id \in DOMAIN stored
    /\ stored[closure[1].scan_id].nmap /= NoParsed
    /\ ~stored[closure[1].scan_id].nmap.success
    /\ stored[closure[1].scan_id].dns /= NoParsed
    /\ stored[closure[1].scan_id].subfinder /= NoParsed

\* C25: every adapter, httpx_probe among them, looks its command up in the
\* cache and after a miss stores the outcome under the command's key: once a
\* probe has returned, the cache holds an entry for the command it ran.
ProbeStoresOutcome ==
    \A i \in 1 .. Len(log) :
        log[i].op = "probe" => InCache(cache, get_key(log[i].command))

\* C26: no step changes a result dictionary that exists: neither the one a
\* cache entry holds nor one an adapter has returned before.
OutcomeNeverMutated ==
    [][\A o \in DOMAIN objs : o \in DOMAIN objs' /\ objs'[o] = objs[o]]_vars

\* C27: a store under a key that has an entry leaves the number of entries as
\* it was and replaces the entry: a lookup that follows returns the result
\* stored last if it is made before the time of that store + ttl, and absent
\* from then on.
StoreOverwrites ==
    \A i \in 1 .. Len(log) - 1 :
        (/\ log[i].op = "set"
         /\ log[i + 1].op = "set"
         /\ Join(log[i + 1].command) = Join(log[i].command))
            => /\ log[i + 1].stats.size = log[i].stats.size
               /\ log[i + 1].kept
               /\ \A m \in (i + 2) .. Len(log) :
                     (/\ log[m].op = "get"
                      /\ Join(log[m].command) = Join(log[i].command)
                      /\ Untouched(i + 1, m))
                        => IF log[m].at < log[i + 1].at + ttl
                           THEN log[m].ret = log[i + 1].ret
                           ELSE log[m].ret = NoObj

\* C27, its case: an entry was replaced at the end of its TTL by a store of
\* another result, and a lookup made then returned the new result.
StoredTwice ==
    /\ Len(log) = 3
    /\ log[1].op = "set" /\ log[2].op = "set" /\ log[3].op = "get"
    /\ log[2].command = log[1].command /\ log[3].command = log[1].command
    /\ log[2].ret /= log[1].ret
    /\ log[2].at = log[1].at + ttl
    /\ log[3].at = log[2].at
    /\ log[3].ret = log[2].ret
    /\ log[3].stats.size = 1

\* the command the thread of job n gives to nmap
JobNmap(n) == NmapCommand(closure[n].target, "service", "", "")

\* C28: the store that ends an adapter call leaves exactly one entry under the
\* command's key, holding the outcome of that call, whatever another call of
\* the same command stored before; and when a job's port scan and an ad-hoc
\* port scan of the same command have both returned, with no clear made, the
\* cache holds an entry under the key with the result one of them returned.
LastStoreWins ==
    [][/\ \A c \in Callers :
            (pc[c] = "set" /\ pc'[c] /= "set")
               => LET key == get_key(frame[c].command) IN
                  /\ DOMAIN cache' = DOMAIN cache \cup {key}
                  /\ cache'[key].result = frame[c].ret
                  /\ \A k \in DOMAIN cache \ {key} : cache'[k] = cache[k]
       /\ \A n \in Jobs :
            (/\ results'[n].nmap /= NoObj
             /\ pc'[AdHoc] = "returned"
             /\ frame'[AdHoc].command = JobNmap(n)
             /\ clears' = 0)
               => /\ InCache(cache', get_key(JobNmap(n)))
                  /\ cache'[get_key(JobNmap(n))].result
                        \in {results'[n].nmap, frame'[AdHoc].ret}
      ]_vars

\* C28, its case: a job and an ad-hoc request ran nmap with the same command,
\* each got the outcome of its own run, the two outcomes differ, and the cache
\* holds the one of the job.
BothExecuted ==
    /\ results[1].nmap = ObjId(1, "nmap")
    /\ pc[AdHoc] = "returned"
    /\ frame[AdHoc].command = JobNmap(1)
    /\ frame[AdHoc].ret \notin {NoObj, results[1].nmap}
    /\ objs[frame[AdHoc].ret].success /= objs[results[1].nmap].success
    /\ ~objs[frame[AdHoc].ret].cached /\ ~objs[results[1].nmap].cached
    /\ cache[get_key(JobNmap(1))].result = results[1].nmap

\* the next statement of thread n raises KeyError: it reads or deletes the
\* cache entry of its command, and the entry is gone
AboutToRaise(n) ==
    /\ pc[n] \in {"get_read", "get_del"}
    /\ ~InCache(cache, get_key(frame[n].command))

\* C29: a step in which the thread of a job meets an uncaught error ends the
\* thread, and in that state and every later one the job is registered as
\* 'running', no aggregate is stored under its id, and the thread takes no
\* further step: its place and its results stay as they are.
AbortedJobStaysRunning ==
    [][\A n \in Jobs :
         /\ (AboutToRaise(n) /\ pc'[n] /= pc[n]) => pc'[n] = "crashed"
         /\ pc[n] = "crashed" => (pc'[n] = "crashed" /\ results'[n] = results[n])
         /\ pc'[n] = "crashed"
              => /\ closure'[n].scan_id \in DOMAIN ACTIVE_SCANS'
                 /\ scan_info'[ACTIVE_SCANS'[closure'[n].scan_id]].status = "running"
                 /\ closure'[n].scan_id \notin DOMAIN SCAN_RESULTS'
      ]_vars

\* C29, its case: the thread of a job has died in its nmap step, time has
\* passed since, and a client that asked for the job's results got 404.
AbortedAndAsked ==
    /\ pc[1] = "crashed"
    /\ results[1].nmap = NoObj
    /\ now > closure[1].start_time
    /\ scan_info[1].status = "running"
    /\ reader.pc = "reply" /\ reader.op = "results"
    /\ reader.id = closure[1].scan_id
    /\ reader.resp.code = 404

\* C30: the execution_time of an outcome is the time on the clock between the
\* call of execute and the construction of the outcome, in every class; for a
\* timeout that is the whole wait and the time the kill took.
ElapsedIsWallClock ==
    \A i \in 1 .. Len(log) :
        log[i].op = "timed"
            => objs[log[i].ret].execution_time = log[i].end - log[i].start

\* C31: no step removes an id from the job registry, so the number health_check
\* reports as 'active_scans' never goes down; the id of every job that was
\* registered is in the registry, completed or not, and is counted.
RegistryOnlyGrows ==
    [][/\ DOMAIN ACTIVE_SCANS \subseteq DOMAIN ACTIVE_SCANS'
       /\ HealthActiveScans(ACTIVE_SCANS') >= HealthActiveScans(ACTIVE_SCANS)
       /\ \A n \in Jobs :
             handler'[n] \in {"registered", "spawned", "returned"}
                => closure'[n].scan_id \in DOMAIN ACTIVE_SCANS'
       /\ HealthActiveScans(ACTIVE_SCANS')
             = Cardinality({ closure'[n].scan_id :
                   n \in { m \in Jobs :
                             handler'[m] \in {"registered", "spawned", "returned"} } })
      ]_vars

\* C31, its case: two jobs are registered under two ids, one of them has
\* completed, and health_check counts both.
CompletedStillCounted ==
    /\ HealthActiveScans(ACTIVE_SCANS) = 2
    /\ pc[1] = "done" /\ scan_info[1].status = "completed"
    /\ scan_info[2].status = "running"

\* C32: an id whose registry entry has status 'completed' is in the result
\* store, and a status response that reports 'completed' carries
\* results_available = true.
CompletedImpliesStored ==
    /\ \A id \in DOMAIN ACTIVE_SCANS :
          JobOf(id).status = "completed" => id \in DOMAIN SCAN_RESULTS
    /\ (Answered /\ reader.pc = "reply" /\ reader.resp.status = "completed")
          => reader.resp.results_available

\* C32, its case: a status response reports 'completed' with results
\* available while the thread has not yet written the job's end_time.
CompletedReportedAvailable ==
    /\ Answered /\ reader.pc = "reply"
    /\ reader.resp.status = "completed"
    /\ reader.resp.results_available
    /\ \E n \in Jobs : pc[n] = "end" /\ closure[n].scan_id = reader.id

\* C33: a lookup, a store or an adapter call for a command leaves the entry
\* under every other key as it is, expired or not, and adds no other key; a
\* lookup removes the entry of its own key only if the entry has reached the
\* TTL and otherwise leaves it as it is.
CacheOwnKeyOnly ==
    [][(Len(log') = Len(log) + 1 /\ log'[Len(log')].op \in {"get", "set", "call"})
          => LET op  == log'[Len(log')].op
                 key == get_key(log'[Len(log')].command)
             IN /\ DOMAIN cache' \subseteq DOMAIN cache \cup {key}
                /\ \A k \in DOMAIN cache \ {key} :
                      k \in DOMAIN cache' /\ cache'[k] = cache[k]
                /\ (op = "get" /\ key \in DOMAIN cache)
                      => IF now - cache[key].timestamp < ttl
                         THEN key \in DOMAIN cache' /\ cache'[key] = cache[key]
                         ELSE key \notin DOMAIN cache'
      ]_vars

\* C33, its case: after a lookup of one key, stats() counts two entries, one
\* of which, under another key, has reached the TTL.
ExpiredStillCounted ==
    /\ Len(log) = 3
    /\ log[3].op = "get"
    /\ log[3].stats.size = 2
    /\ \E k \in DOMAIN cache :
          /\ k /= get_key(log[3].command)
          /\ now - cache[k].timestamp >= ttl
          /\ log[3].at = now

\* C34: the step that answers a start request with 400 (the target is empty)
\* answers success = false and changes nothing else: no job is registered, no
\* result is stored, no handler or thread moves.
EmptyTargetRejected ==
    [][(start_resp' /= start_resp /\ start_resp'.code = 400)
          => /\ ~start_resp'.success
             /\ start_resp'.scan_id = ""
             /\ UNCHANGED <<ACTIVE_SCANS, scan_info, SCAN_RESULTS, results, cache,
                            objs, handler, pc, closure, frame>>
      ]_vars

\* C34, its case: a request with an empty target was answered 400 after
\* another request had been accepted, and the registry holds that one job.
RejectedNextToOneJob ==
    /\ start_resp.code = 400
    /\ handler[1] = "returned"
    /\ HealthActiveScans(ACTIVE_SCANS) = 1
    /\ \A n \in Jobs \ {1} : handler[n] = "none" /\ pc[n] = "idle"

\* C35: a call of dns_info runs six lookups, for A, AAAA, MX, NS, TXT and
\* CNAME in this order, leaves the cache as it is, and returns success = true
\* whatever the lookups did.
DnsSixLookups ==
    [][(Len(log') = Len(log) + 1 /\ log'[Len(log')].op = "dns")
          => /\ log'[Len(log')].lookups =
                   << <<"nslookup", "-type=A", "d.io">>,
                      <<"nslookup", "-type=AAAA", "d.io">>,
                      <<"nslookup", "-type=MX", "d.io">>,
                      <<"nslookup", "-type=NS", "d.io">>,
                      <<"nslookup", "-type=TXT", "d.io">>,
                      <<"nslookup", "-type=CNAME", "d.io">> >>
             /\ cache' = cache
             /\ objs'[log'[Len(log')].ret].success
      ]_vars

\* C35, its case: all six lookups of a call failed and the call returned
\* success = true with no record.
DnsAllFailed ==
    \E i \in 1 .. Len(log) :
        /\ log[i].op = "dns"
        /\ Cardinality(log[i].failed) = Len(log[i].lookups)
        /\ objs[log[i].ret].success
        /\ DOMAIN objs[log[i].ret].records = {}

\* what "a successful attempt" can mean: the server answered with a health
\* object, or the server answered with JSON at all
SuccessReadings == { {"ok"}, {"ok", "not_object"} }

\* the first attempt among the outcomes that is successful, MAX_RETRIES + 1 if none
FirstSuccess(outcomes, good) ==
    IF \E i \in 1 .. MAX_RETRIES : outcomes[i] \in good
    THEN CHOOSE i \in 1 .. MAX_RETRIES :
            outcomes[i] \in good /\ \A j \in 1 .. (i - 1) : outcomes[j] \notin good
    ELSE MAX_RETRIES + 1

\* C36: constructing the client makes at most 3 health-check attempts, stops
\* with the first successful one, and raises ConnectionError exactly if all 3
\* failed, under one reading at least of what a successful attempt is.
ClientRetries ==
    \E good \in SuccessReadings :
        \A i \in 1 .. Len(log) :
            log[i].op = "connect"
                => LET first == FirstSuccess(log[i].outcomes, good) IN
                   /\ log[i].ret.attempts <= 3
                   /\ log[i].ret.attempts = IF first <= 3 THEN first ELSE 3
                   /\ log[i].ret.raised <=> first > 3

\* the tokens of the additional arguments the requests carry
Words(additional_args) ==
    IF additional_args = "" THEN <<>> ELSE <<"-n", "-Pn">>

\* the command the claim describes, with the flags `flags` for the mode
Described(req, flags) ==
    <<"nmap">> \o flags
    \o (IF req.ports = "" THEN <<>> ELSE <<"-p", req.ports>>)
    \o Words(req.additional_args)
    \o <<req.target>>

\* C37: the command is the program path, the flags of the mode (quick: -T4 -F;
\* full: -T4 -p-; service: -sV -sC -T4; a mode nmap_scan does not recognise:
\* the configured default arguments; vuln, the fourth mode it recognises:
\* --script=vuln -T4), '-p <ports>' if ports is given, the additional
\* arguments split at white space, and the target as the last token; two calls
\* with equal parameters build commands with the same cache key.
NmapCommandDeterministic ==
    /\ \A i \in 1 .. Len(log) :
          log[i].op = "build"
              => log[i].command =
                   Described(log[i].req,
                             IF log[i].req.scan_type = "quick" THEN <<"-T4", "-F">>
                             ELSE IF log[i].req.scan_type = "full" THEN <<"-T4", "-p-">>
                             ELSE IF log[i].req.scan_type = "service"
                                  THEN <<"-sV", "-sC", "-T4">>
                             ELSE IF log[i].req.scan_type = "vuln"
                                  THEN <<"--script=vuln", "-T4">>
                             ELSE <<"-sV">>)
    /\ \A i, j \in 1 .. Len(log) :
          (log[i].op = "build" /\ log[j].op = "build" /\ log[i].req = log[j].req)
              => log[i].key = log[j].key

\* C37, its case: commands were built for an unrecognised mode with ports and
\* additional arguments, for the mode vuln, and twice for equal parameters.
BuiltForEveryMode ==
    /\ Len(log) = 3
    /\ log[1].op = "build" /\ log[2].op = "build" /\ log[3].op = "build"
    /\ log[1].req.scan_type = "stealth" /\ log[1].req.ports /= ""
    /\ log[1].req.additional_args = " -n   -Pn "
    /\ log[1].command = <<"nmap", "-sV", "-p", "80,443", "-n", "-Pn", "d.io">>
    /\ log[2].req.scan_type = "vuln"
    /\ log[3].req = log[1].req /\ log[3].key = log[1].key

\* the status code each line of the outputs ends with, for those that end
\* with a token '(Status: NNN)'
StatusTokens ==
    ("/admin (Status: 200)" :> "200") @@ ("/login (Status: 200)" :> "200")
    @@ ("/old (Status: 301)" :> "301") @@ ("http://u.io/x (Status: 301)" :> "301")

\* the lines that begin with '/' or with a URL scheme
EntryLines(lines) == SelectSeq(lines, LAMBDA l : StartsWith(l, "/") \/ IsUrl(l))

\* C38: the found entries of a parse are the output lines that begin with '/'
\* or a URL scheme, one entry per line in output order; a line that ends with
\* '(Status: NNN)' is counted under the status code NNN, and a line without
\* that token is recorded with its status absent.
GobusterParsing ==
    \A i \in 1 .. Len(log) :
        log[i].op = "gobuster_parse"
            => LET want   == EntryLines(log[i].lines)
                   parsed == log[i].parsed
                   coded  == {k \in 1 .. Len(want) : want[k] \in DOMAIN StatusTokens}
               IN  /\ Len(parsed.found_paths) = Len(want)
                   /\ \A k \in 1 .. Len(want) :
                         /\ parsed.found_paths[k].line = want[k]
                         /\ (k \notin coded) => parsed.found_paths[k].status = None
                   /\ DOMAIN parsed.status_codes = {StatusTokens[want[k]] : k \in coded}
                   /\ \A k \in coded :
                         parsed.status_codes[StatusTokens[want[k]]]
                             = Cardinality({j \in coded :
                                               StatusTokens[want[j]] = StatusTokens[want[k]]})

\* the lines of the outputs that strip() leaves empty
BlankLines == {"", "  "}

\* the lines of the outputs without the blanks around them
Trimmed(line) == IF line = " a.d.io " THEN "a.d.io" ELSE line

\* C39: after a successful run the parsed subdomains are the non-blank output
\* lines, each once per occurrence and in output order, and the reported
\* count is the number of non-blank lines.
SubdomainPerLine ==
    \A i \in 1 .. Len(log) :
        (log[i].op = "subfinder_parse" /\ log[i].result.success)
            => LET lines  == log[i].lines
                   keep   == {j \in 1 .. Len(lines) : lines[j] \notin BlankLines}
                   parsed == log[i].result.parsed
               IN  /\ parsed.count = Cardinality(keep)
                   /\ Len(parsed.lines) = Cardinality(keep)
                   /\ \A j \in keep :
                         parsed.lines[Cardinality({k \in keep : k <= j})] = Trimmed(lines[j])

\* C39, its case: an output with a name twice and blank lines was parsed
\* after a successful run, one with blanks around a name and a line of blanks
\* too, and a failed run got no parsed value.
RepeatedNameCounted ==
    /\ Len(log) = 3
    /\ log[1].op = "subfinder_parse" /\ log[1].result.success
    /\ log[1].lines = <<"b.d.io", "", "a.d.io", "b.d.io", "">>
    /\ log[1].result.parsed.lines = <<"b.d.io", "a.d.io", "b.d.io">>
    /\ log[1].result.parsed.count = 3
    /\ log[2].op = "subfinder_parse" /\ log[2].result.success
    /\ log[2].lines = <<" a.d.io ", "  ", "a.d.io">>
    /\ log[2].result.parsed.count = 2
    /\ log[3].op = "subfinder_parse" /\ ~log[3].result.success
    /\ log[3].result.parsed = NoParsed

====
